---- MODULE Spec2Model ----
(***************************************************************************)
(* Screen detection (screen_detector.py) and macro execution               *)
(* (screen_macros.py) of Andriod-connect, as state machines.               *)
(*                                                                         *)
(* Confidences and thresholds are integers in hundredths (0.70 is 70),     *)
(* scale factors are integers in tenths (1.2 is 12).                       *)
(***************************************************************************)
EXTENDS Integers, Sequences, FiniteSets, TLC

VARIABLES
    \* ---- detect_current_screen (screen_detector.py) ----
    dStore,      \* rows of table screen_templates, in rowid order
    dArgThr,     \* the threshold argument: [given, v]
    dMulti,      \* the use_multiscale argument
    dPc,         \* "call", "loop", "done"
    dTemplates,  \* local `templates`
    dI,          \* position of the for loop over templates
    dMatches,    \* local `matches`
    dResult,     \* the returned dict
    dEvals,      \* number of match_template* calls made
    dSeen,       \* per evaluated template: what the matcher was given
    \* ---- match_template / match_template_multiscale called alone ----
    sIn,         \* the inputs of the call
    sMultiRes,   \* result of match_template_multiscale
    sSingleRes,  \* result of match_template
    \* ---- execute_text / execute_text_with_retry (screen_macros.py) ----
    tCaller,     \* "none", "direct" (called on its own) or "macro"
    tPc,         \* "off", "retry_loop", "text_loop", "returned"
    tText,       \* the text argument: [iterable, chars]
    tDelay,      \* the delay_ms argument
    tRetry,      \* TRUE: execute_text_with_retry was called; FALSE: execute_text
    tMax,        \* the max_retries argument
    tAttempt,    \* loop variable `attempt`
    tPos,        \* position of `for char in text` in the running execute_text
    tTokens,     \* commands issued by the running execute_text: [token, ok]
    tDelivered,  \* per finished execute_text call: number of characters sent
    tCmds,       \* number of device commands issued by this call
    tResult,     \* the value returned to the caller
    \* ---- execute_macro (screen_macros.py) ----
    mSettingsDb, \* the device's row of table device_settings: [present, ...]
    mActions,    \* the actions argument
    mPc,         \* "off", "call", "loop", "in_text", "done", "raised"
    mI,          \* position of `for i, action in enumerate(actions)`, from 1
    mResults,    \* local `results`
    mSettings,   \* local `device_settings`
    mReads,      \* number of get_device_settings calls of this run
    mCmds,       \* number of device commands issued by this run
    mAttempted,  \* per execute_action call, in call order: [step, outcome]
    mLastCmd,    \* the last device command of an action that is no text input:
                 \* [step, outcome of subprocess.run]
    \* ---- the macro store (screen_macros.py, data/screen_control.db) ----
    kMacros,     \* rows of table macros, in rowid order
    kMacroSeq,   \* the AUTOINCREMENT counter of macros: the largest id given
    kLinks,      \* rows of table template_macro_links, in rowid order
    kLinkSeq,    \* the AUTOINCREMENT counter of template_macro_links
    kClock,      \* CURRENT_TIMESTAMP: one tick per store call
    kLast,       \* the last store call: its name, arguments and return value
    \* ---- get_device_settings (screen_macros.py) ----
    gTable,      \* table device_settings: device address -> row, or no row
    gDevice,     \* the device_address argument of the call
    gPc,         \* "off", "call", "done"
    gRet,        \* what the call returned
    \* ---- two execute_macro invocations at once (screen_macros.py) ----
    pMacros,     \* invocation -> its arguments [device_address, actions]
    pPc,         \* invocation -> "call", "loop", "done", "raised"
    pFrames,     \* frame -> the locals [i, results, device_settings]
    pAnswers,    \* invocation -> what the device answered to each of its steps
    pWire,       \* the adb commands run so far: [by, device, step]
    \* ---- ADBDevice.delete_sql_file (adb_manager.py) ----
    aDevice,     \* the attributes [connected, app_installed, app_running]
    aRunning,    \* whether the app is running on the device
    aPc,         \* "off", "call", "done"
    aCmds,       \* the adb commands run by the call, with what subprocess.run gave
    aRet,        \* the dict the call returned
    \* ---- auto refresh (server.py) ----
    rEnabled,    \* the global auto_refresh_enabled
    rLoops,      \* the auto_refresh_task threads started so far, each at
                 \* "test" (line 300), "pull" (301-317), "sleep" (320) or "ended"
    rCalls,      \* the start_auto_refresh and stop_auto_refresh calls made
    rUntested    \* the threads that have not tested the flag since the last stop

detVars == <<dStore, dArgThr, dMulti, dPc, dTemplates, dI, dMatches,
             dResult, dEvals, dSeen>>
scaleVars == <<sIn, sMultiRes, sSingleRes>>
textVars == <<tCaller, tPc, tText, tDelay, tRetry, tMax, tAttempt, tPos, tTokens,
              tDelivered, tCmds, tResult>>
macroVars == <<mSettingsDb, mActions, mPc, mI, mResults, mSettings, mReads, mCmds,
               mAttempted, mLastCmd>>
storeVars == <<kMacros, kMacroSeq, kLinks, kLinkSeq, kClock, kLast>>
settingsVars == <<gTable, gDevice, gPc, gRet>>
pairVars == <<pMacros, pPc, pFrames, pAnswers, pWire>>
adbVars == <<aDevice, aRunning, aPc, aCmds, aRet>>
refreshVars == <<rEnabled, rLoops, rCalls, rUntested>>
extraVars == <<storeVars, settingsVars, pairVars, adbVars, refreshVars>>
vars == <<detVars, scaleVars, textVars, macroVars, extraVars>>
otherThanDet == <<scaleVars, textVars, macroVars, extraVars>>
otherThanScale == <<detVars, textVars, macroVars, extraVars>>
otherThanText == <<detVars, scaleVars, macroVars, extraVars>>
otherThanMacro == <<detVars, scaleVars, extraVars>>
otherThanStore ==
    <<detVars, scaleVars, textVars, macroVars, settingsVars, pairVars, adbVars, refreshVars>>
otherThanSettings ==
    <<detVars, scaleVars, textVars, macroVars, storeVars, pairVars, adbVars, refreshVars>>
otherThanPair ==
    <<detVars, scaleVars, textVars, macroVars, storeVars, settingsVars, adbVars, refreshVars>>
otherThanAdb ==
    <<detVars, scaleVars, textVars, macroVars, storeVars, settingsVars, pairVars, refreshVars>>
otherThanRefresh ==
    <<detVars, scaleVars, textVars, macroVars, storeVars, settingsVars, pairVars, adbVars>>
----------------------------------------------------------------------------
\* Bounds of the model.

MaxTemplates == 2
\* Longest action list of a macro.
MaxActions == 3
\* Longest text typed with retry, and the largest max_retries argument.
MaxTextLen == 2
MaxRetries == 2
\* Longest text whose escaping is checked.
MaxEscLen == 2
\* Largest number of calls made on the macro store.
MaxStoreOps == 3
\* Largest number of start_auto_refresh and stop_auto_refresh calls.
MaxRefreshCalls == 5

\* Confidence values cv2.minMaxLoc can report (TM_CCOEFF_NORMED is in [-1, 1]).
ConfLevels == {-50, 0, 69, 75, 95}
\* Per-scale confidence values of the matcher called on its own.
ScaleConfs == {-50, 0, 69, 95}
\* Values of the confidence_threshold column.
StoredThresholds == {70}
\* Values of the priority column.
Priorities == {5, 10}
\* Values of the threshold argument; given = FALSE is None.
ThresholdArgs ==
    {[given |-> FALSE, v |-> 0], [given |-> TRUE, v |-> 0], [given |-> TRUE, v |-> 80]}
\* The screenshot's shape, and the shapes of template images.
Screenshot == [h |-> 10, w |-> 10]
TemplateDims ==
    {[h |-> 8, w |-> 8], [h |-> 10, w |-> 10], [h |-> 8, w |-> 12],
     [h |-> 13, w |-> 9], [h |-> 14, w |-> 14]}

----------------------------------------------------------------------------
\* screen_detector.py

\* The default of the `scales` parameter: [0.8, 0.9, 1.0, 1.1, 1.2].
Scales == <<8, 9, 10, 11, 12>>
ScaleIdx == 1..Len(Scales)
\* The position of scale 1.0, the native size.
NativeIdx == CHOOSE k \in ScaleIdx : Scales[k] = 10

\* Names of the seeded templates, by rowid.
TemplateNames == <<"login", "bionag", "noload", "firstloadnag", "nagload2">>

None == [found |-> FALSE]

\* int(template_h * scale), int(template_w * scale)
Resized(dims, scale) == [h |-> (dims.h * scale) \div 10, w |-> (dims.w * scale) \div 10]

\* new_h > screenshot.shape[0] or new_w > screenshot.shape[1]
TooLarge(dims, scale) ==
    \/ Resized(dims, scale).h > Screenshot.h
    \/ Resized(dims, scale).w > Screenshot.w

\* match_template: one correlation at native size. cv2.matchTemplate raises
\* when the template is larger than the image; the except clause returns None.
match_template(shotOk, tplOk, dims, confs, threshold) ==
    IF ~shotOk \/ ~tplOk THEN None
    ELSE IF dims.h > Screenshot.h \/ dims.w > Screenshot.w THEN None
    ELSE LET max_val == confs[NativeIdx] IN
         IF max_val >= threshold
         THEN [found |-> TRUE, confidence |-> max_val, matched |-> TRUE,
               scale |-> 10, location |-> [width |-> dims.w, height |-> dims.h]]
         ELSE [found |-> TRUE, confidence |-> max_val, matched |-> FALSE,
               scale |-> 10]

\* The body of `for scale in scales`, from position k on.
RECURSIVE ScaleLoop(_, _, _, _, _, _)
ScaleLoop(k, best_confidence, best_match, dims, confs, threshold) ==
    IF k > Len(Scales) THEN best_match
    ELSE IF TooLarge(dims, Scales[k])
         THEN ScaleLoop(k + 1, best_confidence, best_match, dims, confs, threshold)
    ELSE LET max_val == confs[k] IN
         IF max_val > best_confidence
         THEN ScaleLoop(k + 1, max_val,
                        [found |-> TRUE, confidence |-> max_val,
                         location |-> [width |-> Resized(dims, Scales[k]).w,
                                       height |-> Resized(dims, Scales[k]).h],
                         scale |-> Scales[k],
                         matched |-> (max_val >= threshold)],
                        dims, confs, threshold)
         ELSE ScaleLoop(k + 1, best_confidence, best_match, dims, confs, threshold)

\* match_template_multiscale with the default scales.
match_template_multiscale(shotOk, tplOk, dims, confs, threshold) ==
    IF ~shotOk \/ ~tplOk THEN None
    ELSE ScaleLoop(1, 0, None, dims, confs, threshold)

\* Rows as `SELECT ... ORDER BY priority DESC` can return them: every order of
\* the rowids that is descending in priority (SQL leaves the order of rows of
\* equal priority open).
QueryOrders(store) ==
    {p \in [1..Len(store) -> 1..Len(store)] :
        /\ \A i, j \in 1..Len(store) : i # j => p[i] # p[j]
        /\ \A i, j \in 1..Len(store) :
              i < j => store[p[i]].priority >= store[p[j]].priority}

\* load_templates_from_db: the rows in query order whose image file exists
\* (os.path.exists), and [] when the query raises.
load_templates_from_db(store, order, existing, dbOk) ==
    IF ~dbOk THEN <<>>
    ELSE LET rows == [k \in 1..Len(store) |->
                         [id |-> order[k], name |-> TemplateNames[order[k]],
                          threshold |-> store[order[k]].threshold,
                          priority |-> store[order[k]].priority]]
             Exists(r) == r.id \in existing
         IN SelectSeq(rows, Exists)

\* A faulty variant of EffectiveThreshold: the argument is ignored.
EffectiveThreshold_StoredOnly(threshold, template) == template.threshold

\* match_threshold = threshold if threshold is not None else template['threshold']
EffectiveThreshold(threshold, template) ==
    IF threshold.given THEN threshold.v ELSE template.threshold

\* A faulty variant of KeyLess: the key is the confidence alone.
KeyLess_ConfidenceOnly(a, b) == a.confidence < b.confidence

\* The sort key (x['priority'], x['confidence']) compared as Python compares tuples.
KeyLess(a, b) ==
    \/ a.priority < b.priority
    \/ a.priority = b.priority /\ a.confidence < b.confidence

\* A faulty variant of InsertDesc: ascending sort, then reversed, which turns
\* the order of elements of equal key around.
RECURSIVE InsertDesc_ReversedTies(_, _)
InsertDesc_ReversedTies(sorted, m) ==
    IF sorted = <<>> THEN <<m>>
    ELSE IF ~KeyLess(m, Head(sorted)) THEN <<m>> \o sorted
    ELSE <<Head(sorted)>> \o InsertDesc_ReversedTies(Tail(sorted), m)

\* list.sort(key=..., reverse=True): descending and stable, so that elements of
\* equal key keep their order. InsertDesc puts m before the first element of a
\* smaller key.
RECURSIVE InsertDesc(_, _)
InsertDesc(sorted, m) ==
    IF sorted = <<>> THEN <<m>>
    ELSE IF KeyLess(Head(sorted), m) THEN <<m>> \o sorted
    ELSE <<Head(sorted)>> \o InsertDesc(Tail(sorted), m)

RECURSIVE SortMatches(_)
SortMatches(matches) ==
    IF matches = <<>> THEN <<>>
    ELSE InsertDesc(SortMatches(SubSeq(matches, 1, Len(matches) - 1)),
                    matches[Len(matches)])

\* A faulty variant of NoTemplatesOutcome: the empty list falls through to the
\* no-match return.
NoTemplatesOutcome_FallThrough ==
    [kind |-> "dict", success |-> TRUE, screen |-> "null",
     message |-> "No matching screen detected"]

\* Lines 233-236: the dict returned when there is no template.
NoTemplatesOutcome ==
    [kind |-> "dict", success |-> FALSE, error |-> "No templates available"]

\* Lines 274-282: the dict returned for the sorted, non-empty matches.
WinnerOutcome(matches) ==
    LET best_match == matches[1] IN
    [kind |-> "dict", success |-> TRUE,
     screen |-> best_match.template_name,
     template_id |-> best_match.template_id,
     confidence |-> best_match.confidence,
     location |-> best_match.location,
     scale |-> best_match.scale,
     all_matches |-> matches]

\* A faulty variant of NoMatchOutcome: no match is reported as a failure.
NoMatchOutcome_AsFailure ==
    [kind |-> "dict", success |-> FALSE, error |-> "No matching screen detected"]

\* Lines 284-288: the dict returned when no template matched.
NoMatchOutcome ==
    [kind |-> "dict", success |-> TRUE, screen |-> "null",
     message |-> "No matching screen detected"]

\* The scales the matcher evaluates for a template image of shape dims.
EvaluatedScales(multi, shotOk, tplOk, dims) ==
    IF ~shotOk \/ ~tplOk THEN {}
    ELSE IF multi THEN {k \in ScaleIdx : ~TooLarge(dims, Scales[k])}
    ELSE IF dims.h > Screenshot.h \/ dims.w > Screenshot.w THEN {}
    ELSE {NativeIdx}

\* The record kept in dSeen of one template's evaluation: whether any scale
\* was evaluated, and the highest confidence cv2 gave over the evaluated scales.
SeenEntry(template, multi, shotOk, tplOk, dims, confs) ==
    LET ev == EvaluatedScales(multi, shotOk, tplOk, dims) IN
    IF ev = {} THEN [id |-> template.id, has |-> FALSE, best |-> 0]
    ELSE [id |-> template.id, has |-> TRUE,
          best |-> CHOOSE c \in {confs[k] : k \in ev} :
                       \A k \in ev : confs[k] <= c]

----------------------------------------------------------------------------
\* detect_current_screen as a state machine.

TemplateRows == [threshold : StoredThresholds, priority : Priorities]

\* Per-scale confidences of one template in one screenshot, as detection draws
\* them: the same at every scale, or a peak at scale 1.2 over a base of 0.
ScoreVectors ==
    {[k \in ScaleIdx |-> c] : c \in ConfLevels}
    \cup {[k \in ScaleIdx |-> IF k = Len(Scales) THEN c ELSE 0] : c \in ConfLevels}
\* Template image shapes as detection draws them.
DetectDims == {[h |-> 8, w |-> 8], [h |-> 10, w |-> 10]}

DetectIdle ==
    /\ dStore = <<>> /\ dArgThr = [given |-> FALSE, v |-> 0] /\ dMulti = TRUE
    /\ dPc = "off" /\ dTemplates = <<>> /\ dI = 1
    /\ dMatches = <<>> /\ dResult = [kind |-> "none"] /\ dEvals = 0 /\ dSeen = <<>>

DetectInit ==
    /\ dStore \in UNION {[1..n -> TemplateRows] : n \in 0..MaxTemplates}
    /\ dArgThr \in ThresholdArgs
    /\ dMulti \in BOOLEAN
    /\ dPc = "call"
    /\ dTemplates = <<>>
    /\ dI = 1
    /\ dMatches = <<>>
    /\ dResult = [kind |-> "none"]
    /\ dEvals = 0
    /\ dSeen = <<>>

\* A faulty variant of TemplatesAfterLoad: the load clears the table.
TemplatesAfterLoad_Cleared(store) == <<>>

\* Lines 56-68: load_templates_from_db connects, runs one SELECT and closes
\* without a commit: the rows of screen_templates are as they were.
TemplatesAfterLoad(store) == store

\* Lines 229-236: load the templates; none: the 'No templates available' dict.
DetectLoad ==
    /\ dPc = "call"
    /\ \E order \in QueryOrders(dStore), existing \in SUBSET (1..Len(dStore)),
          dbOk \in BOOLEAN :
          LET templates == load_templates_from_db(dStore, order, existing, dbOk) IN
          /\ dTemplates' = templates
          /\ IF templates = <<>>
             THEN /\ dResult' = NoTemplatesOutcome
                  /\ dPc' = "done"
             ELSE /\ dResult' = dResult
                  /\ dPc' = "loop"
    /\ dStore' = TemplatesAfterLoad(dStore)
    /\ UNCHANGED <<dArgThr, dMulti, dI, dMatches, dEvals, dSeen>>
    /\ UNCHANGED otherThanDet

\* A faulty variant of AfterTemplate: a template the matcher returns None for
\* ends the loop.
AfterTemplate_StopOnNone(i, n, match_result) ==
    IF match_result.found THEN i + 1 ELSE n + 1

\* Line 240: the position of `for template in templates` after a pass over
\* position i of n; no branch of the body leaves the loop, whatever the
\* matcher returned.
AfterTemplate(i, n, match_result) == i + 1

\* Lines 240-266: one pass of `for template in templates`.
DetectMatch ==
    /\ dPc = "loop"
    /\ dI <= Len(dTemplates)
    /\ \E shotOk \in BOOLEAN, tplOk \in BOOLEAN, dims \in DetectDims,
          confs \in ScoreVectors :
          LET template == dTemplates[dI]
              match_threshold == EffectiveThreshold(dArgThr, template)
              match_result ==
                  IF dMulti
                  THEN match_template_multiscale(shotOk, tplOk, dims, confs,
                                                 match_threshold)
                  ELSE match_template(shotOk, tplOk, dims, confs, match_threshold)
          IN
          /\ dMatches' =
                IF match_result.found /\ match_result.matched
                THEN Append(dMatches,
                            [template_id |-> template.id,
                             template_name |-> template.name,
                             confidence |-> match_result.confidence,
                             location |-> match_result.location,
                             priority |-> template.priority,
                             scale |-> match_result.scale])
                ELSE dMatches
          /\ dSeen' = Append(dSeen, SeenEntry(template, dMulti, shotOk, tplOk, dims,
                                              confs))
          /\ dI' = AfterTemplate(dI, Len(dTemplates), match_result)
    /\ dEvals' = dEvals + 1
    /\ UNCHANGED <<dStore, dArgThr, dMulti, dPc, dTemplates, dResult>>
    /\ UNCHANGED otherThanDet

\* Lines 268-288: after the loop, sort and return the best match, or no match.
DetectReturn ==
    /\ dPc = "loop"
    /\ dI > Len(dTemplates)
    /\ IF dMatches # <<>>
       THEN /\ dMatches' = SortMatches(dMatches)
            /\ dResult' = WinnerOutcome(SortMatches(dMatches))
       ELSE /\ dMatches' = dMatches
            /\ dResult' = NoMatchOutcome
    /\ dPc' = "done"
    /\ UNCHANGED <<dStore, dArgThr, dMulti, dTemplates, dI, dEvals, dSeen>>
    /\ UNCHANGED otherThanDet

DetectNext == DetectLoad \/ DetectMatch \/ DetectReturn

----------------------------------------------------------------------------
\* match_template_multiscale and match_template called on their own.

ScaleIdle == sIn = [kind |-> "none"] /\ sMultiRes = [kind |-> "none"]
             /\ sSingleRes = [kind |-> "none"]

ScaleInit ==
    /\ sIn \in [kind : {"call"}, shotOk : BOOLEAN, tplOk : BOOLEAN,
                dims : TemplateDims, confs : [ScaleIdx -> ScaleConfs],
                threshold : {0, 70}]
    /\ sMultiRes = [kind |-> "none"]
    /\ sSingleRes = [kind |-> "none"]

MultiscaleCall ==
    /\ sIn.kind = "call"
    /\ sMultiRes = [kind |-> "none"]
    /\ sMultiRes' = [kind |-> "returned",
                     r |-> match_template_multiscale(sIn.shotOk, sIn.tplOk, sIn.dims,
                                                     sIn.confs, sIn.threshold)]
    /\ UNCHANGED <<sIn, sSingleRes>>
    /\ UNCHANGED otherThanScale

SingleCall ==
    /\ sIn.kind = "call"
    /\ sSingleRes = [kind |-> "none"]
    /\ sSingleRes' = [kind |-> "returned",
                      r |-> match_template(sIn.shotOk, sIn.tplOk, sIn.dims,
                                           sIn.confs, sIn.threshold)]
    /\ UNCHANGED <<sIn, sMultiRes>>
    /\ UNCHANGED otherThanScale

ScaleNext == MultiscaleCall \/ SingleCall

----------------------------------------------------------------------------
\* screen_macros.py: text input.

\* Characters: the eight escaped ones, and ordinary ones (among them the
\* characters the escape tokens are made of).
\* The backtick, which a TLA+ string cannot hold, is written by name.
Backtick == "backtick"
SpecialChars == {" ", "&", "\"", "'", Backtick, "$", "(", ")"}
EscapeAlphabet == SpecialChars \cup {"a", "%", "s", "\\"}
\* Characters of the texts typed with retry.
RetryAlphabet == {"a", " "}

SeqsUpTo(S, n) == UNION {[1..k -> S] : k \in 0..n}

\* Outcomes of subprocess.run in execute_adb_command: return code 0, another
\* return code, TimeoutExpired after 30 s, another exception (adb missing).
CmdOutcomes == {"ok", "nonzero", "timeout", "oserror"}

\* A faulty variant of execute_adb_command: a timeout counts as success.
execute_adb_command_TimeoutOk(outcome) == outcome \in {"ok", "timeout"}

\* execute_adb_command: returncode == 0, and False in the except clause.
execute_adb_command(outcome) == outcome = "ok"

\* A faulty variant of EscapedChar: the two parentheses share one token.
EscapedChar_ParenSlip(char) ==
    IF char = " " THEN <<"%", "s">>
    ELSE IF char \in {"(", ")"} THEN <<"\\", "(">>
    ELSE IF char \in SpecialChars THEN <<"\\", char>>
    ELSE <<char>>

\* Lines 62-79 of execute_text: the argument of `input text` for one character,
\* as the sequence of its characters.
EscapedChar(char) ==
    IF char = " " THEN <<"%", "s">>
    ELSE IF char = "&" THEN <<"\\", "&">>
    ELSE IF char = "\"" THEN <<"\\", "\"">>
    ELSE IF char = "'" THEN <<"\\", "'">>
    ELSE IF char = Backtick THEN <<"\\", Backtick>>
    ELSE IF char = "$" THEN <<"\\", "$">>
    ELSE IF char = "(" THEN <<"\\", "(">>
    ELSE IF char = ")" THEN <<"\\", ")">>
    ELSE <<char>>

\* The default of max_retries.
DefaultMaxRetries == 2

TextIdle ==
    /\ tCaller = "none" /\ tPc = "off" /\ tText = [iterable |-> TRUE, chars |-> <<>>]
    /\ tDelay = 0 /\ tRetry = FALSE /\ tMax = 0 /\ tAttempt = 0 /\ tPos = 1
    /\ tTokens = <<>> /\ tDelivered = <<>> /\ tCmds = 0 /\ tResult = FALSE

\* The state in which a caller leaves the text variables when it calls
\* execute_text_with_retry (retry) or execute_text (~retry).
TextCalled(caller, text, delay, retry, max) ==
    /\ tCaller' = caller
    /\ tText' = text
    /\ tDelay' = delay
    /\ tRetry' = retry
    /\ tMax' = max
    /\ tAttempt' = 0
    /\ tPos' = 1
    /\ tTokens' = <<>>
    /\ tDelivered' = <<>>
    /\ tCmds' = 0
    /\ tResult' = FALSE
    /\ tPc' = IF retry THEN "retry_loop" ELSE "text_loop"

\* execute_text has returned ret: line 112-117 of execute_text_with_retry, or
\* the return to the caller of execute_text.
TextReturned(ret) ==
    IF tRetry /\ ~ret
    THEN /\ tAttempt' = tAttempt + 1
         /\ tPc' = "retry_loop"
         /\ tResult' = tResult
    ELSE /\ tAttempt' = tAttempt
         /\ tPc' = "returned"
         /\ tResult' = ret

\* A faulty variant of RetryRange: range(max_retries).
RetryRange_NoFirstTry(max_retries) == max_retries

\* Line 111: the number of passes of `for attempt in range(max_retries + 1)`.
RetryRange(max_retries) == max_retries + 1

\* A faulty variant of AttemptStart: an attempt resumes where the last one
\* failed.
AttemptStart_Resume(pos) == pos

\* Line 60: `for char in text` of a new execute_text call starts at the first
\* character, wherever the call before stopped.
AttemptStart(pos) == 1

\* Line 111-112: one pass of the loop calls execute_text.
RetryAttempt ==
    /\ tPc = "retry_loop"
    /\ tAttempt < RetryRange(tMax)
    /\ tPc' = "text_loop"
    /\ tPos' = AttemptStart(tPos)
    /\ tTokens' = <<>>
    /\ UNCHANGED <<tCaller, tText, tDelay, tRetry, tMax, tAttempt, tDelivered, tCmds,
                   tResult>>
    /\ UNCHANGED otherThanText

\* Lines 119-120: the loop is exhausted, return False.
RetryExhausted ==
    /\ tPc = "retry_loop"
    /\ ~(tAttempt < RetryRange(tMax))
    /\ tPc' = "returned"
    /\ tResult' = FALSE
    /\ UNCHANGED <<tCaller, tText, tDelay, tRetry, tMax, tAttempt, tPos, tTokens,
                   tDelivered, tCmds>>
    /\ UNCHANGED otherThanText

\* A faulty variant of SendEndsAttempt: a failed send is passed over.
SendEndsAttempt_Never(success) == FALSE

\* Lines 84-86: `if not success: return False`.
SendEndsAttempt(success) == ~success

\* Lines 60-90: one pass of `for char in text`: escape, send, stop at a failure.
TextSendChar ==
    /\ tPc = "text_loop"
    /\ tText.iterable
    /\ tPos <= Len(tText.chars)
    /\ \E outcome \in CmdOutcomes :
          LET escaped_char == EscapedChar(tText.chars[tPos])
              success == execute_adb_command(outcome)
          IN /\ tTokens' = Append(tTokens, [token |-> escaped_char, ok |-> success])
             /\ tCmds' = tCmds + 1
             /\ IF ~SendEndsAttempt(success)
                THEN /\ tPos' = tPos + 1
                     /\ UNCHANGED <<tPc, tAttempt, tResult, tDelivered>>
                ELSE /\ tPos' = tPos
                     /\ tDelivered' = Append(tDelivered, tPos - 1)
                     /\ TextReturned(FALSE)
    /\ UNCHANGED <<tCaller, tText, tDelay, tRetry, tMax>>
    /\ UNCHANGED otherThanText

\* Line 92: the loop over the characters is over, return True; lines 93-95:
\* iterating a value that is no string raises, return False.
TextEnd ==
    /\ tPc = "text_loop"
    /\ ~tText.iterable \/ tPos > Len(tText.chars)
    /\ tDelivered' = Append(tDelivered, tPos - 1)
    /\ TextReturned(tText.iterable)
    /\ UNCHANGED <<tCaller, tText, tDelay, tRetry, tMax, tPos, tTokens, tCmds>>
    /\ UNCHANGED otherThanText

TextNext == RetryAttempt \/ RetryExhausted \/ TextSendChar \/ TextEnd

\* execute_text_with_retry(device, text, delay_ms, max_retries) called on its own.
RetryInit ==
    /\ tCaller = "direct"
    /\ tRetry = TRUE
    /\ tPc = "retry_loop"
    /\ tText \in [iterable : BOOLEAN, chars : SeqsUpTo(RetryAlphabet, MaxTextLen)]
    /\ tDelay \in {0, 150}
    /\ tMax \in 0..MaxRetries
    /\ tAttempt = 0 /\ tPos = 1 /\ tTokens = <<>> /\ tDelivered = <<>>
    /\ tCmds = 0 /\ tResult = FALSE

\* execute_text(device, text, delay_ms) called on its own.
EscapeInit ==
    /\ tCaller = "direct"
    /\ tRetry = FALSE
    /\ tPc = "text_loop"
    /\ tText \in [iterable : {TRUE}, chars : SeqsUpTo(EscapeAlphabet, MaxEscLen)]
    /\ tDelay = 150
    /\ tMax = 0
    /\ tAttempt = 0 /\ tPos = 1 /\ tTokens = <<>> /\ tDelivered = <<>>
    /\ tCmds = 0 /\ tResult = FALSE

----------------------------------------------------------------------------
\* screen_macros.py: actions and macros.

\* A Python dict is a record; a list element that is no dict is NotADict.
NotADict == [notdict |-> TRUE]
IsDict(action) == "notdict" \notin DOMAIN action
\* action.get(key, default)
Get(action, key, default) == IF key \in DOMAIN action THEN action[key] ELSE default

\* The text typed by the text actions of the macros.
MacroText == [iterable |-> TRUE, chars |-> <<" ">>]

\* The actions macros are made of: a command with its payload and without, text
\* with and without retry, a command without payload, a wait, an unknown type,
\* a dict without type, and an element that is no dict.
ActionShapes ==
    {[type |-> "tap", x |-> 10, y |-> 20],
     [type |-> "tap", x |-> 10],
     [type |-> "text", value |-> MacroText],
     [type |-> "text", value |-> MacroText, retry |-> FALSE, delay_ms |-> 0],
     [type |-> "back"],
     [type |-> "wait", seconds |-> 1],
     [type |-> "bogus"],
     [x |-> 10, y |-> 20],
     NotADict}

\* Rows of device_settings for the device.
SettingsRows ==
    {[present |-> FALSE],
     [present |-> TRUE, match_threshold |-> 80, keystroke_delay_ms |-> 50,
      post_login_wait_seconds |-> 2]}

\* get_device_settings: the row, the defaults when there is none, and the
\* defaults when the query raises.
get_device_settings(row, dbOk) ==
    IF dbOk /\ row.present
    THEN [match_threshold |-> row.match_threshold,
          keystroke_delay_ms |-> row.keystroke_delay_ms,
          post_login_wait_seconds |-> row.post_login_wait_seconds]
    ELSE [match_threshold |-> 70, keystroke_delay_ms |-> 150,
          post_login_wait_seconds |-> 4]

\* Python's None as the device_settings argument.
NoSettings == [kind |-> "none"]

\* A faulty variant of PassedSettings: execute_action is called without the
\* settings, and fetches them itself.
PassedSettings_Omitted(device_settings) == NoSettings

\* Line 288: the third argument of execute_action is the local device_settings.
PassedSettings(device_settings) == device_settings

\* Lines 216-217 of execute_action: the settings are fetched when None was
\* passed; Refetched counts that get_device_settings call.
ResolvedSettings(device_settings, row, dbOk) ==
    IF device_settings = NoSettings THEN get_device_settings(row, dbOk)
    ELSE device_settings
Refetched(device_settings) == IF device_settings = NoSettings THEN 1 ELSE 0
\* Whether the query of that get_device_settings call succeeds: open when the
\* call is made, and of no effect otherwise.
QueryOutcomes(device_settings) ==
    IF device_settings = NoSettings THEN BOOLEAN ELSE {TRUE}

\* The first of the keys that the dict lacks; "" when it has them all.
RECURSIVE MissingKey(_, _)
MissingKey(action, keys) ==
    IF keys = <<>> THEN ""
    ELSE IF Head(keys) \notin DOMAIN action THEN Head(keys)
    ELSE MissingKey(action, Tail(keys))

\* The payload keys execute_action subscripts, in evaluation order, per type.
PayloadKeys(action_type) ==
    IF action_type = "tap" THEN <<"x", "y">>
    ELSE IF action_type = "swipe" THEN <<"x1", "y1", "x2", "y2">>
    ELSE IF action_type = "text" THEN <<"value">>
    ELSE IF action_type = "keyevent" THEN <<"code">>
    ELSE IF action_type = "long_press" THEN <<"x", "y">>
    ELSE IF action_type = "wait" THEN <<"seconds">>
    ELSE <<>>

\* execute_action up to the point where it touches the device:
\*   raise  a subscript raises KeyError(key)
\*   cmd    one execute_adb_command call decides the result
\*   text   execute_text_with_retry or execute_text decides the result
\*   value  the result is known: execute_wait, or an unknown type
execute_action(action, device_settings) ==
    LET action_type == Get(action, "type", "None")
        missing == MissingKey(action, PayloadKeys(action_type))
    IN
    IF action_type \in {"tap", "swipe", "keyevent", "long_press"}
    THEN IF missing # "" THEN [kind |-> "raise", error |-> missing]
         ELSE [kind |-> "cmd"]
    ELSE IF action_type = "text"
    THEN IF missing # "" THEN [kind |-> "raise", error |-> missing]
         ELSE [kind |-> "text",
               delay_ms |-> Get(action, "delay_ms", device_settings.keystroke_delay_ms),
               use_retry |-> Get(action, "retry", TRUE),
               value |-> action.value]
    ELSE IF action_type \in {"back", "home"} THEN [kind |-> "cmd"]
    ELSE IF action_type = "wait"
    THEN IF missing # "" THEN [kind |-> "raise", error |-> missing]
         \* execute_wait: time.sleep raises on a negative value, caught: False
         ELSE [kind |-> "value", result |-> (action.seconds >= 0)]
    ELSE [kind |-> "value", result |-> FALSE]

\* A faulty variant of Recorded: a successful step sets success back to true.
Recorded_LastStepWins(results, step, action_type, outcome, error) ==
    IF outcome = "true"
    THEN [results EXCEPT
            !.success = TRUE,
            !.executed_actions = @ + 1,
            !.execution_log = Append(@, [step |-> step, action |-> action_type,
                                         status |-> "success"])]
    ELSE [results EXCEPT
            !.success = FALSE,
            !.failed_actions = Append(@, [step |-> step, action |-> action_type,
                                          error |-> error]),
            !.execution_log = Append(@, [step |-> step, action |-> action_type,
                                         status |-> "failed"])]

\* A faulty variant of Recorded: executed_actions counts every attempted step.
Recorded_CountsAttempts(results, step, action_type, outcome, error) ==
    IF outcome = "true"
    THEN [results EXCEPT
            !.executed_actions = @ + 1,
            !.execution_log = Append(@, [step |-> step, action |-> action_type,
                                         status |-> "success"])]
    ELSE [results EXCEPT
            !.success = FALSE,
            !.executed_actions = @ + 1,
            !.failed_actions = Append(@, [step |-> step, action |-> action_type,
                                          error |-> error]),
            !.execution_log = Append(@, [step |-> step, action |-> action_type,
                                         status |-> "failed"])]

\* A faulty variant of Recorded: an exception is logged like a false return.
Recorded_RaiseLogsFailed(results, step, action_type, outcome, error) ==
    IF outcome = "true"
    THEN [results EXCEPT
            !.executed_actions = @ + 1,
            !.execution_log = Append(@, [step |-> step, action |-> action_type,
                                         status |-> "success"])]
    ELSE [results EXCEPT
            !.success = FALSE,
            !.failed_actions = Append(@, [step |-> step, action |-> action_type,
                                          error |-> "Execution failed"]),
            !.execution_log = Append(@, [step |-> step, action |-> action_type,
                                         status |-> "failed"])]

\* Lines 290-322: what one step adds to `results`. outcome is "true", "false"
\* (execute_action returned) or "raise" (it raised, with the text of the error).
Recorded(results, step, action_type, outcome, error) ==
    IF outcome = "true"
    THEN [results EXCEPT
            !.executed_actions = @ + 1,
            !.execution_log = Append(@, [step |-> step, action |-> action_type,
                                         status |-> "success"])]
    ELSE IF outcome = "false"
    THEN [results EXCEPT
            !.success = FALSE,
            !.failed_actions = Append(@, [step |-> step, action |-> action_type,
                                          error |-> "Execution failed"]),
            !.execution_log = Append(@, [step |-> step, action |-> action_type,
                                         status |-> "failed"])]
    ELSE [results EXCEPT
            !.success = FALSE,
            !.failed_actions = Append(@, [step |-> step, action |-> action_type,
                                          error |-> error]),
            !.execution_log = Append(@, [step |-> step, action |-> action_type,
                                         status |-> "error", error |-> error])]

MacroIdle ==
    /\ mSettingsDb = [present |-> FALSE] /\ mActions = <<>> /\ mPc = "off" /\ mI = 1
    /\ mResults = [kind |-> "none"] /\ mSettings = [kind |-> "none"] /\ mReads = 0
    /\ mCmds = 0 /\ mAttempted = <<>> /\ mLastCmd = [step |-> 0, outcome |-> "none"]

MacroInit ==
    /\ mSettingsDb \in SettingsRows
    /\ mActions \in SeqsUpTo(ActionShapes, MaxActions)
    /\ mPc = "call"
    /\ mI = 1
    /\ mResults = [kind |-> "none"]
    /\ mSettings = [kind |-> "none"]
    /\ mReads = 0
    /\ mCmds = 0
    /\ mAttempted = <<>>
    /\ mLastCmd = [step |-> 0, outcome |-> "none"]

\* Lines 165-177: get_device_settings connects, runs one SELECT and closes
\* without a commit: the row of device_settings is as it was.
SettingsAfterRead(row) == row

\* Lines 273-282: build `results`, read the device settings.
MacroBegin ==
    /\ mPc = "call"
    /\ mResults' = [success |-> TRUE, total_actions |-> Len(mActions),
                    executed_actions |-> 0, failed_actions |-> <<>>,
                    execution_log |-> <<>>]
    /\ \E dbOk \in BOOLEAN : mSettings' = get_device_settings(mSettingsDb, dbOk)
    /\ mReads' = mReads + 1
    /\ mPc' = "loop"
    /\ mSettingsDb' = SettingsAfterRead(mSettingsDb)
    /\ UNCHANGED <<mActions, mI, mCmds, mAttempted, mLastCmd>>
    /\ UNCHANGED textVars
    /\ UNCHANGED otherThanMacro

\* The outcomes of subprocess.run for a planned execute_action call: those of
\* CmdOutcomes when the call runs one device command, none otherwise.
RunOutcomes(call) == IF call.kind = "cmd" THEN CmdOutcomes ELSE {"none"}

\* Lines 284-322 for an element that is no dict: action.get raises
\* AttributeError at line 285, before the try statement.
MacroStepNotDict ==
    /\ mPc = "loop"
    /\ mI <= Len(mActions)
    /\ ~IsDict(mActions[mI])
    /\ mPc' = "raised"
    /\ UNCHANGED <<mSettingsDb, mActions, mI, mResults, mSettings, mReads, mCmds,
                   mAttempted, mLastCmd>>
    /\ UNCHANGED textVars
    /\ UNCHANGED otherThanMacro

\* Lines 284-322 for an action that is no text input: one whole pass of the loop.
MacroStep ==
    /\ mPc = "loop"
    /\ mI <= Len(mActions)
    /\ IsDict(mActions[mI])
    /\ \E dbOk \in QueryOutcomes(PassedSettings(mSettings)) :
       LET action == mActions[mI]
           action_type == Get(action, "type", "unknown")
           passed == PassedSettings(mSettings)
           call == execute_action(action, ResolvedSettings(passed, mSettingsDb, dbOk))
       IN /\ call.kind # "text"
          /\ mReads' = mReads + Refetched(passed)
          /\ \E cmd \in RunOutcomes(call) :
                LET outcome ==
                        IF call.kind = "raise" THEN "raise"
                        ELSE IF call.kind = "cmd"
                        THEN (IF execute_adb_command(cmd) THEN "true" ELSE "false")
                        ELSE (IF call.result THEN "true" ELSE "false")
                    error == IF call.kind = "raise" THEN call.error ELSE ""
                IN /\ mResults' = Recorded(mResults, mI, action_type, outcome, error)
                   /\ mAttempted' = Append(mAttempted, [step |-> mI, outcome |-> outcome])
                   /\ mLastCmd' = IF call.kind = "cmd"
                                  THEN [step |-> mI, outcome |-> cmd]
                                  ELSE mLastCmd
          /\ mCmds' = mCmds + (IF call.kind = "cmd" THEN 1 ELSE 0)
    /\ mI' = mI + 1
    /\ UNCHANGED <<mSettingsDb, mActions, mPc, mSettings>>
    /\ UNCHANGED textVars
    /\ UNCHANGED otherThanMacro

\* Line 288 for a text action: execute_action calls execute_text_with_retry
\* (with the default max_retries) or execute_text.
MacroTextCall ==
    /\ mPc = "loop"
    /\ mI <= Len(mActions)
    /\ IsDict(mActions[mI])
    /\ \E dbOk \in QueryOutcomes(PassedSettings(mSettings)) :
       LET passed == PassedSettings(mSettings)
           call == execute_action(mActions[mI],
                                  ResolvedSettings(passed, mSettingsDb, dbOk))
       IN /\ call.kind = "text"
          /\ mReads' = mReads + Refetched(passed)
          /\ TextCalled("macro", call.value, call.delay_ms, call.use_retry,
                        DefaultMaxRetries)
    /\ mPc' = "in_text"
    /\ UNCHANGED <<mSettingsDb, mActions, mI, mResults, mSettings, mCmds, mAttempted,
                   mLastCmd>>
    /\ UNCHANGED otherThanMacro

\* Lines 290-308 once the text call has returned.
MacroTextReturn ==
    /\ mPc = "in_text"
    /\ tPc = "returned"
    /\ LET action_type == Get(mActions[mI], "type", "unknown")
           outcome == IF tResult THEN "true" ELSE "false"
       IN /\ mResults' = Recorded(mResults, mI, action_type, outcome, "")
          /\ mAttempted' = Append(mAttempted, [step |-> mI, outcome |-> outcome])
    /\ mCmds' = mCmds + tCmds
    /\ mI' = mI + 1
    /\ mPc' = "loop"
    /\ tCaller' = "none" /\ tPc' = "off" /\ tText' = [iterable |-> TRUE, chars |-> <<>>]
    /\ tDelay' = 0 /\ tRetry' = FALSE /\ tMax' = 0 /\ tAttempt' = 0 /\ tPos' = 1
    /\ tTokens' = <<>> /\ tDelivered' = <<>> /\ tCmds' = 0 /\ tResult' = FALSE
    /\ UNCHANGED <<mSettingsDb, mActions, mSettings, mReads, mLastCmd>>
    /\ UNCHANGED otherThanMacro

\* The device's row of device_settings is written while the macro runs (the
\* table is written outside screen_macros.py, which only reads it). The run
\* can read the table only in execute_action, so a write during a text input
\* is the same to it as a write before its next action.
SettingsWritten ==
    /\ mPc = "loop"
    /\ mSettingsDb' \in SettingsRows \ {mSettingsDb}
    /\ UNCHANGED <<mActions, mPc, mI, mResults, mSettings, mReads, mCmds, mAttempted,
                   mLastCmd>>
    /\ UNCHANGED textVars
    /\ UNCHANGED otherThanMacro

\* Line 324: return results.
MacroReturn ==
    /\ mPc = "loop"
    /\ mI > Len(mActions)
    /\ mPc' = "done"
    /\ UNCHANGED <<mSettingsDb, mActions, mI, mResults, mSettings, mReads, mCmds,
                   mAttempted, mLastCmd>>
    /\ UNCHANGED textVars
    /\ UNCHANGED otherThanMacro

----------------------------------------------------------------------------
\* screen_macros.py: the macro store.

\* Python values of the actions that are saved, with their type.
PyInt(n) == [py |-> "int", n |-> n]
PyStr(str) == [py |-> "str", s |-> str]
PyBool(b) == [py |-> "bool", b |-> b]

\* json.dumps of a value, and json.loads of what it wrote.
json_dumps_value(v) ==
    IF v.py = "int" THEN [json |-> "number", n |-> v.n]
    ELSE IF v.py = "str" THEN [json |-> "string", s |-> v.s]
    ELSE IF v.b THEN [json |-> "true"] ELSE [json |-> "false"]
json_loads_value(j) ==
    IF j.json = "number" THEN PyInt(j.n)
    ELSE IF j.json = "string" THEN PyStr(j.s)
    ELSE PyBool(j.json = "true")

\* json.dumps of a list of dicts: an array of objects, the elements in list
\* order; json.loads gives a list of dicts back.
json_dumps(actions) ==
    [k \in 1..Len(actions) |->
        [key \in DOMAIN actions[k] |-> json_dumps_value(actions[k][key])]]
json_loads(text) ==
    [k \in 1..Len(text) |->
        [key \in DOMAIN text[k] |-> json_loads_value(text[k][key])]]

\* The action lists that are saved: two actions, the same two in the other
\* order, and one action with a boolean field.
SavedActions ==
    {<<[type |-> PyStr("tap"), x |-> PyInt(10), y |-> PyInt(20)],
       [type |-> PyStr("back")]>>,
     <<[type |-> PyStr("back")],
       [type |-> PyStr("tap"), x |-> PyInt(10), y |-> PyInt(20)]>>,
     <<[type |-> PyStr("text"), value |-> PyStr("a"), retry |-> PyBool(FALSE)]>>}
MacroNames == {"login", "logout"}
Descriptions == {"", "d"}
\* Ids of templates and of macros that links are made of.
LinkTemplateIds == {1, 2}
LinkMacroIds == {1, 2}

\* The position of the row of that name in the table; 0 when there is none.
RowOfName(table, name) ==
    IF \E k \in 1..Len(table) : table[k].name = name
    THEN CHOOSE k \in 1..Len(table) : table[k].name = name
    ELSE 0

\* INSERT OR REPLACE in place of the upsert: the row of that name is deleted
\* and a new row, with a new id, is inserted.
Upserted_Replaced(table, seq, name, description, actions_json, now) ==
    LET Kept(row) == row.name # name IN
    Append(SelectSeq(table, Kept),
           [id |-> seq + 1, name |-> name, description |-> description,
            actions |-> actions_json, created_at |-> now])

\* Lines 337-342: INSERT ... ON CONFLICT(name) DO UPDATE SET description,
\* actions, created_at. A new row takes the next AUTOINCREMENT id.
Upserted(table, seq, name, description, actions_json, now) ==
    LET k == RowOfName(table, name) IN
    IF k = 0
    THEN Append(table, [id |-> seq + 1, name |-> name, description |-> description,
                        actions |-> actions_json, created_at |-> now])
    ELSE [table EXCEPT ![k] = [@ EXCEPT !.description = description,
                                        !.actions = actions_json,
                                        !.created_at = now]]

StoreIdle ==
    /\ kMacros = <<>> /\ kMacroSeq = 0 /\ kLinks = <<>> /\ kLinkSeq = 0
    /\ kClock = 0 /\ kLast = [op |-> "none"]

\* save_macro(name, description, actions).
SaveMacro ==
    /\ kClock < MaxStoreOps
    /\ \E name \in MacroNames, description \in Descriptions,
          actions \in SavedActions, dbOk \in BOOLEAN :
          /\ IF dbOk
             THEN /\ kMacros' = Upserted(kMacros, kMacroSeq, name, description,
                                         json_dumps(actions), kClock + 1)
                  /\ kMacroSeq' = IF RowOfName(kMacros, name) = 0
                                  THEN kMacroSeq + 1 ELSE kMacroSeq
             ELSE UNCHANGED <<kMacros, kMacroSeq>>
          /\ kLast' = [op |-> "save_macro", name |-> name,
                       description |-> description, actions |-> actions,
                       existed |-> RowOfName(kMacros, name) # 0,
                       ret |-> dbOk]
    /\ kClock' = kClock + 1
    /\ UNCHANGED <<kLinks, kLinkSeq>>
    /\ UNCHANGED otherThanStore

\* get_macro(name): the row as a dict, None when there is none or on an error.
GetMacro ==
    /\ kClock < MaxStoreOps
    /\ \E name \in MacroNames, dbOk \in BOOLEAN :
          LET k == RowOfName(kMacros, name) IN
          kLast' = [op |-> "get_macro", name |-> name, readable |-> dbOk,
                    follows |-> IF kLast.op = "save_macro" THEN kLast
                                ELSE [op |-> kLast.op],
                    ret |-> IF dbOk /\ k # 0
                            THEN [found |-> TRUE, id |-> kMacros[k].id,
                                  name |-> kMacros[k].name,
                                  description |-> kMacros[k].description,
                                  actions |-> json_loads(kMacros[k].actions),
                                  created_at |-> kMacros[k].created_at]
                            ELSE [found |-> FALSE]]
    /\ kClock' = kClock + 1
    /\ UNCHANGED <<kMacros, kMacroSeq, kLinks, kLinkSeq>>
    /\ UNCHANGED otherThanStore

\* delete_macro(name): DELETE FROM macros WHERE name = ?.
DeleteMacro ==
    /\ kClock < MaxStoreOps
    /\ \E name \in MacroNames, dbOk \in BOOLEAN :
          LET Kept(row) == row.name # name IN
          /\ kMacros' = IF dbOk THEN SelectSeq(kMacros, Kept) ELSE kMacros
          /\ kLast' = [op |-> "delete_macro", name |-> name, ret |-> dbOk]
    /\ kClock' = kClock + 1
    /\ UNCHANGED <<kMacroSeq, kLinks, kLinkSeq>>
    /\ UNCHANGED otherThanStore

\* link_template_to_macro(template_id, macro_id): lines 458-461, a plain INSERT
\* into a table that has no UNIQUE constraint on the pair
\* (init_screen_control_db.py lines 59-67).
LinkInserted(table, seq, template_id, macro_id) ==
    Append(table, [id |-> seq + 1, template_id |-> template_id,
                   macro_id |-> macro_id])

LinkTemplateToMacro ==
    /\ kClock < MaxStoreOps
    /\ \E template_id \in LinkTemplateIds, macro_id \in LinkMacroIds,
          dbOk \in BOOLEAN :
          /\ IF dbOk
             THEN /\ kLinks' = LinkInserted(kLinks, kLinkSeq, template_id, macro_id)
                  /\ kLinkSeq' = kLinkSeq + 1
             ELSE UNCHANGED <<kLinks, kLinkSeq>>
          /\ kLast' = [op |-> "link_template_to_macro", template_id |-> template_id,
                       macro_id |-> macro_id, ret |-> dbOk]
    /\ kClock' = kClock + 1
    /\ UNCHANGED <<kMacros, kMacroSeq>>
    /\ UNCHANGED otherThanStore

\* unlink_template_from_macro: DELETE ... WHERE template_id = ? AND macro_id = ?.
UnlinkTemplateFromMacro ==
    /\ kClock < MaxStoreOps
    /\ \E template_id \in LinkTemplateIds, macro_id \in LinkMacroIds,
          dbOk \in BOOLEAN :
          LET Kept(row) == ~(row.template_id = template_id /\ row.macro_id = macro_id) IN
          /\ kLinks' = IF dbOk THEN SelectSeq(kLinks, Kept) ELSE kLinks
          /\ kLast' = [op |-> "unlink_template_from_macro",
                       template_id |-> template_id, macro_id |-> macro_id,
                       ret |-> dbOk]
    /\ kClock' = kClock + 1
    /\ UNCHANGED <<kMacros, kMacroSeq, kLinkSeq>>
    /\ UNCHANGED otherThanStore

\* Lines 497-503: macros m JOIN template_macro_links tml ON m.id = tml.macro_id
\* WHERE tml.template_id = ?: one output row per link row whose macro exists.
RECURSIVE JoinedMacros(_, _, _)
JoinedMacros(links, macros, template_id) ==
    IF links = <<>> THEN <<>>
    ELSE LET l == Head(links)
             Matches(m) == m.id = l.macro_id
             found == SelectSeq(macros, Matches)
             rest == JoinedMacros(Tail(links), macros, template_id)
         IN IF l.template_id = template_id
            THEN [k \in 1..Len(found) |->
                     [id |-> found[k].id, name |-> found[k].name,
                      description |-> found[k].description]] \o rest
            ELSE rest

\* get_macros_for_template(template_id): the joined rows, [] on an error.
GetMacrosForTemplate ==
    /\ kClock < MaxStoreOps
    /\ \E template_id \in LinkTemplateIds, dbOk \in BOOLEAN :
          kLast' = [op |-> "get_macros_for_template", template_id |-> template_id,
                    ret |-> IF dbOk THEN JoinedMacros(kLinks, kMacros, template_id)
                            ELSE <<>>]
    /\ kClock' = kClock + 1
    /\ UNCHANGED <<kMacros, kMacroSeq, kLinks, kLinkSeq>>
    /\ UNCHANGED otherThanStore

\* The macros table that links are made against: one macro, or two.
LinkedMacroTables ==
    {<<[id |-> 1, name |-> "login", description |-> "", actions |-> <<>>,
        created_at |-> 0]>>,
     <<[id |-> 1, name |-> "login", description |-> "", actions |-> <<>>,
        created_at |-> 0],
       [id |-> 2, name |-> "logout", description |-> "d", actions |-> <<>>,
        created_at |-> 0]>>}

MacrosInit ==
    /\ kMacros = <<>> /\ kMacroSeq = 0 /\ kLinks = <<>> /\ kLinkSeq = 0
    /\ kClock = 0 /\ kLast = [op |-> "none"]

LinksInit ==
    /\ kMacros \in LinkedMacroTables /\ kMacroSeq = Len(kMacros)
    /\ kLinks = <<>> /\ kLinkSeq = 0
    /\ kClock = 0 /\ kLast = [op |-> "none"]


----------------------------------------------------------------------------
\* screen_macros.py: get_device_settings against the table device_settings.

DeviceAddresses == {"10.0.0.1:5555", "10.0.0.2:5555"}
\* A column that holds NULL: sqlite3 gives Python's None.
NullColumn == [null |-> TRUE]
Column(n) == [null |-> FALSE, n |-> n]
\* The rows of one device: none, or a row whose columns hold a number or NULL
\* (no schema of the table is part of this repository).
StoredSettings ==
    {[present |-> FALSE]}
    \cup {[present |-> TRUE, match_threshold |-> t, keystroke_delay_ms |-> k,
           post_login_wait_seconds |-> w] :
            t \in {Column(70), Column(80), NullColumn},
            k \in {Column(50), Column(150), NullColumn},
            w \in {Column(2), NullColumn}}

\* Lines 169-175: SELECT ... WHERE device_address = ?, fetchone().
RowOfDevice(table, device_address) == table[device_address]

\* A faulty variant of get_device_row: an unreadable store is not caught.
get_device_row_Uncaught(row, dbOk) ==
    IF ~dbOk THEN [kind |-> "raise"]
    ELSE IF row.present
    THEN [match_threshold |-> row.match_threshold,
          keystroke_delay_ms |-> row.keystroke_delay_ms,
          post_login_wait_seconds |-> row.post_login_wait_seconds]
    ELSE [match_threshold |-> Column(70), keystroke_delay_ms |-> Column(150),
          post_login_wait_seconds |-> Column(4)]

\* Lines 164-198 over rows whose columns may hold NULL: the three columns of
\* the row as they are, the defaults when there is no row or the query raises.
get_device_row(row, dbOk) ==
    IF dbOk /\ row.present
    THEN [match_threshold |-> row.match_threshold,
          keystroke_delay_ms |-> row.keystroke_delay_ms,
          post_login_wait_seconds |-> row.post_login_wait_seconds]
    ELSE [match_threshold |-> Column(70), keystroke_delay_ms |-> Column(150),
          post_login_wait_seconds |-> Column(4)]

SettingsIdle ==
    /\ gTable = [d \in DeviceAddresses |-> [present |-> FALSE]]
    /\ gDevice = "none" /\ gPc = "off" /\ gRet = [kind |-> "none"]

SettingsInit ==
    /\ gTable \in [DeviceAddresses -> StoredSettings]
    /\ gDevice \in DeviceAddresses
    /\ gPc = "call"
    /\ gRet = [kind |-> "none"]

\* get_device_settings(device_address).
GetDeviceSettings ==
    /\ gPc = "call"
    /\ \E dbOk \in BOOLEAN :
          gRet' = [readable |-> dbOk,
                   value |-> get_device_row(RowOfDevice(gTable, gDevice), dbOk)]
    /\ gPc' = "done"
    /\ UNCHANGED <<gTable, gDevice>>
    /\ UNCHANGED otherThanSettings

----------------------------------------------------------------------------
\* screen_macros.py: two invocations of execute_macro at the same time.

Invocations == {1, 2}
\* The device of each invocation, and the rows of device_settings.
PairDevice == [r \in Invocations |->
                  IF r = 1 THEN "10.0.0.1:5555" ELSE "10.0.0.2:5555"]
PairSettingsRow(device_address) ==
    IF device_address = "10.0.0.1:5555"
    THEN [present |-> TRUE, match_threshold |-> 80, keystroke_delay_ms |-> 50,
          post_login_wait_seconds |-> 2]
    ELSE [present |-> FALSE]
\* The action lists the two invocations run.
PairMacros ==
    {<<>>,
     <<[type |-> "tap", x |-> 10, y |-> 20], [type |-> "back"]>>,
     <<[type |-> "tap", x |-> 10], [type |-> "text", value |-> MacroText]>>,
     <<[type |-> "bogus"], [type |-> "tap", x |-> 10, y |-> 20]>>,
     <<[type |-> "back"], NotADict, [type |-> "back"]>>}
\* What subprocess.run gives for the commands of one action.
PairAnswers(call) ==
    IF call.kind \in {"cmd", "text"} THEN {"ok", "nonzero"} ELSE {"none"}

\* A faulty variant of Frame: `results`, the settings and the loop position
\* are module-level names, one frame for every invocation.
Frame_Shared(invocation) == 1

\* Lines 273-284: results, device_settings and the loop variables are locals
\* of execute_macro: every invocation has a frame of its own.
Frame(invocation) == invocation

\* Line 21: full_command = ['adb', '-s', device_address] + command.
Addressed(device_address, invocation, step) ==
    [by |-> invocation, device |-> device_address, step |-> step]

NoFrame == [i |-> 0, results |-> [kind |-> "none"], device_settings |-> NoSettings]

PairIdle ==
    /\ pMacros = [r \in Invocations |-> [device_address |-> "none", actions |-> <<>>]]
    /\ pPc = [r \in Invocations |-> "off"]
    /\ pFrames = [f \in Invocations |-> NoFrame]
    /\ pAnswers = [r \in Invocations |-> <<>>]
    /\ pWire = {}

PairInit ==
    /\ pMacros \in {[r \in Invocations |->
                        [device_address |-> PairDevice[r],
                         actions |-> IF r = 1 THEN a1 ELSE a2]] :
                    a1 \in PairMacros, a2 \in PairMacros}
    /\ pPc = [r \in Invocations |-> "call"]
    /\ pFrames = [f \in Invocations |-> NoFrame]
    /\ pAnswers = [r \in Invocations |-> <<>>]
    /\ pWire = {}

\* Lines 273-282 of invocation r.
PairBegin(r) ==
    /\ pPc[r] = "call"
    /\ \E dbOk \in BOOLEAN :
          pFrames' = [pFrames EXCEPT ![Frame(r)] =
                        [i |-> 1,
                         results |-> [success |-> TRUE,
                                      total_actions |-> Len(pMacros[r].actions),
                                      executed_actions |-> 0,
                                      failed_actions |-> <<>>,
                                      execution_log |-> <<>>],
                         device_settings |->
                             get_device_settings(
                                 PairSettingsRow(pMacros[r].device_address), dbOk)]]
    /\ pPc' = [pPc EXCEPT ![r] = "loop"]
    /\ UNCHANGED <<pMacros, pAnswers, pWire>>
    /\ UNCHANGED otherThanPair

\* Lines 284-322 of invocation r: one pass of the loop, or the AttributeError
\* of line 285 for an element that is no dict.
PairStep(r) ==
    LET frame == pFrames[Frame(r)]
        actions == pMacros[r].actions
    IN
    /\ pPc[r] = "loop"
    /\ frame.i >= 1 /\ frame.i <= Len(actions)
    /\ IF ~IsDict(actions[frame.i])
       THEN /\ pPc' = [pPc EXCEPT ![r] = "raised"]
            /\ UNCHANGED <<pFrames, pAnswers, pWire>>
       ELSE LET action == actions[frame.i]
                action_type == Get(action, "type", "unknown")
                call == execute_action(action, frame.device_settings)
            IN \E answer \in PairAnswers(call) :
                  LET outcome ==
                          IF call.kind = "raise" THEN "raise"
                          ELSE IF call.kind \in {"cmd", "text"}
                          THEN (IF execute_adb_command(answer) THEN "true" ELSE "false")
                          ELSE (IF call.result THEN "true" ELSE "false")
                      error == IF call.kind = "raise" THEN call.error ELSE ""
                  IN /\ pFrames' = [pFrames EXCEPT ![Frame(r)] =
                                      [@ EXCEPT !.i = frame.i + 1,
                                                !.results = Recorded(frame.results,
                                                    frame.i, action_type, outcome,
                                                    error)]]
                     /\ pAnswers' = [pAnswers EXCEPT ![r] = Append(@, answer)]
                     /\ pWire' = IF call.kind \in {"cmd", "text"}
                                 THEN pWire \cup {Addressed(pMacros[r].device_address,
                                                            r, frame.i)}
                                 ELSE pWire
                     /\ UNCHANGED pPc
    /\ UNCHANGED pMacros
    /\ UNCHANGED otherThanPair

\* Line 324 of invocation r.
PairReturn(r) ==
    /\ pPc[r] = "loop"
    /\ pFrames[Frame(r)].i > Len(pMacros[r].actions)
    /\ pPc' = [pPc EXCEPT ![r] = "done"]
    /\ UNCHANGED <<pMacros, pFrames, pAnswers, pWire>>
    /\ UNCHANGED otherThanPair

----------------------------------------------------------------------------
\* adb_manager.py: ADBDevice.delete_sql_file.

\* What subprocess.run gives: a completed process, TimeoutExpired, or another
\* exception.
Completed(returncode, stdout, stderr) ==
    [done |-> TRUE, returncode |-> returncode, stdout |-> stdout, stderr |-> stderr]
TimedOut == [done |-> FALSE, why |-> "timeout"]
RunFailed == [done |-> FALSE, why |-> "oserror"]

\* `pidof` on a device where the app runs and where it does not.
PidofOutcomes(running) ==
    (IF running THEN {Completed(0, "4242", "")} ELSE {Completed(1, "", "")})
    \cup {TimedOut, RunFailed}
\* `ls -la` of the file.
LsOutcomes == {Completed(0, "sql.db", ""), Completed(1, "", "No such file or directory"),
               TimedOut}
\* `rm -f` of the file.
RmOutcomes ==
    {Completed(0, "", ""), Completed(1, "", "Permission denied"),
     Completed(1, "", "Read-only file system"),
     Completed(1, "", "No such file or directory"), Completed(1, "", ""), TimedOut,
     RunFailed}

\* Lines 88-104: run_adb_command returns the completed process, None on a
\* timeout and None on any other exception.
NoResult == [none |-> TRUE]
run_adb_command(outcome) ==
    IF outcome.done
    THEN [none |-> FALSE, returncode |-> outcome.returncode,
          stdout |-> outcome.stdout, stderr |-> outcome.stderr]
    ELSE NoResult
\* `result and result.returncode == 0`
Succeeded0(result) == ~result.none /\ result.returncode = 0

\* Lines 150-161 on a connected device: the app runs when pidof returned 0
\* with output; anything else, no result included, is 'not running'.
check_app_running(result) == Succeeded0(result) /\ result.stdout # ""

Reply(success, reason) == [success |-> success, reason |-> reason]

\* Lines 378-398: the reply after an rm that did not return 0.
RmErrorReply(result) ==
    LET error_msg == IF ~result.none THEN result.stderr ELSE "" IN
    IF error_msg = "Permission denied" THEN Reply(FALSE, "permission_denied")
    ELSE IF error_msg = "Read-only file system" THEN Reply(FALSE, "readonly_filesystem")
    ELSE IF error_msg = "No such file or directory" THEN Reply(FALSE, "file_not_found")
    ELSE Reply(FALSE, "unknown_error")

AdbIdle ==
    /\ aDevice = [connected |-> FALSE, app_installed |-> FALSE, app_running |-> FALSE]
    /\ aRunning = FALSE /\ aPc = "off" /\ aCmds = <<>> /\ aRet = [kind |-> "none"]

AdbInit ==
    /\ aDevice \in [connected : BOOLEAN, app_installed : BOOLEAN, app_running : BOOLEAN]
    /\ aRunning \in BOOLEAN
    /\ aPc = "call" /\ aCmds = <<>> /\ aRet = [kind |-> "none"]

Ran(cmd, outcome) == [cmd |-> cmd, outcome |-> outcome]

\* Lines 322-328: the device is not connected, or the app is not installed.
DeleteRefused ==
    /\ aPc = "call"
    /\ ~aDevice.connected \/ ~aDevice.app_installed
    /\ aRet' = IF ~aDevice.connected THEN Reply(FALSE, "device_not_connected")
               ELSE Reply(FALSE, "app_not_installed")
    /\ aPc' = "done"
    /\ UNCHANGED <<aDevice, aRunning, aCmds>>
    /\ UNCHANGED otherThanAdb

\* Lines 330-404 on a connected device with the app installed.
DeleteSqlFile ==
    /\ aPc = "call"
    /\ aDevice.connected /\ aDevice.app_installed
    /\ \E pidof \in PidofOutcomes(aRunning), ls \in LsOutcomes, rm \in RmOutcomes,
          verify \in LsOutcomes :
          LET running == check_app_running(run_adb_command(pidof))
              check_result == run_adb_command(ls)
              result == run_adb_command(rm)
              verify_result == run_adb_command(verify)
          IN
          /\ aDevice' = [aDevice EXCEPT !.app_running = running]
          /\ IF running
             THEN /\ aRet' = Reply(FALSE, "app_running")
                  /\ aCmds' = <<Ran("pidof", pidof)>>
             ELSE IF ~check_result.none /\ check_result.returncode # 0
             THEN /\ aRet' = Reply(FALSE, "file_not_found")
                  /\ aCmds' = <<Ran("pidof", pidof), Ran("ls", ls)>>
             ELSE IF Succeeded0(result)
             THEN /\ aRet' = IF ~verify_result.none /\ verify_result.returncode # 0
                             THEN Reply(TRUE, "deleted")
                             ELSE Reply(FALSE, "delete_failed")
                  /\ aCmds' = <<Ran("pidof", pidof), Ran("ls", ls), Ran("rm", rm),
                                Ran("ls", verify)>>
             ELSE /\ aRet' = RmErrorReply(result)
                  /\ aCmds' = <<Ran("pidof", pidof), Ran("ls", ls), Ran("rm", rm)>>
    /\ aPc' = "done"
    /\ UNCHANGED aRunning
    /\ UNCHANGED otherThanAdb

----------------------------------------------------------------------------
\* server.py: the auto-refresh thread.

Alive == {l \in 1..Len(rLoops) : rLoops[l] # "ended"}

\* Lines 45-47: the module is loaded with auto refresh off and no thread.
RefreshIdle ==
    /\ rEnabled = FALSE /\ rLoops = <<>> /\ rCalls = 0 /\ rUntested = {}

\* Lines 327-332: start_auto_refresh with the flag off sets it and starts a
\* thread, which begins at the test of its while statement.
StartAutoRefresh ==
    /\ rCalls < MaxRefreshCalls
    /\ ~rEnabled
    /\ rEnabled' = TRUE
    /\ rLoops' = Append(rLoops, "test")
    /\ rCalls' = rCalls + 1
    /\ UNCHANGED rUntested
    /\ UNCHANGED otherThanRefresh

\* Line 333: start_auto_refresh with the flag on returns False.
StartWhileEnabled ==
    /\ rCalls < MaxRefreshCalls
    /\ rEnabled
    /\ rCalls' = rCalls + 1
    /\ UNCHANGED <<rEnabled, rLoops, rUntested>>
    /\ UNCHANGED otherThanRefresh

\* Lines 340-343: stop_auto_refresh with the flag on clears it; nothing is
\* done to the thread.
StopAutoRefresh ==
    /\ rCalls < MaxRefreshCalls
    /\ rEnabled
    /\ rEnabled' = FALSE
    /\ rUntested' = Alive
    /\ rCalls' = rCalls + 1
    /\ UNCHANGED rLoops
    /\ UNCHANGED otherThanRefresh

\* Line 344: stop_auto_refresh with the flag off returns False.
StopWhileDisabled ==
    /\ rCalls < MaxRefreshCalls
    /\ ~rEnabled
    /\ rCalls' = rCalls + 1
    /\ UNCHANGED <<rEnabled, rLoops, rUntested>>
    /\ UNCHANGED otherThanRefresh

\* Line 300: `while auto_refresh_enabled` read by thread l.
LoopTest(l) ==
    /\ rLoops[l] = "test"
    /\ rLoops' = [rLoops EXCEPT ![l] = IF rEnabled THEN "pull" ELSE "ended"]
    /\ rUntested' = rUntested \ {l}
    /\ UNCHANGED <<rEnabled, rCalls>>
    /\ UNCHANGED otherThanRefresh

\* Lines 301-317: the pull, every exception caught.
LoopPull(l) ==
    /\ rLoops[l] = "pull"
    /\ rLoops' = [rLoops EXCEPT ![l] = "sleep"]
    /\ UNCHANGED <<rEnabled, rCalls, rUntested>>
    /\ UNCHANGED otherThanRefresh

\* Line 320: time.sleep(auto_refresh_interval) is over.
LoopWake(l) ==
    /\ rLoops[l] = "sleep"
    /\ rLoops' = [rLoops EXCEPT ![l] = "test"]
    /\ UNCHANGED <<rEnabled, rCalls, rUntested>>
    /\ UNCHANGED otherThanRefresh

----------------------------------------------------------------------------
\* Specifications.
ExtraIdle == StoreIdle /\ SettingsIdle /\ PairIdle /\ AdbIdle /\ RefreshIdle
OthersIdle == DetectIdle /\ ScaleIdle /\ TextIdle /\ MacroIdle
ExtraIdleButStore == SettingsIdle /\ PairIdle /\ AdbIdle /\ RefreshIdle
IdleButStore == OthersIdle /\ ExtraIdleButStore
ExtraIdleButSettings == StoreIdle /\ PairIdle /\ AdbIdle /\ RefreshIdle
IdleButSettings == OthersIdle /\ ExtraIdleButSettings
ExtraIdleButPair == StoreIdle /\ SettingsIdle /\ AdbIdle /\ RefreshIdle
IdleButPair == OthersIdle /\ ExtraIdleButPair
ExtraIdleButAdb == StoreIdle /\ SettingsIdle /\ PairIdle /\ RefreshIdle
IdleButAdb == OthersIdle /\ ExtraIdleButAdb
ExtraIdleButRefresh == StoreIdle /\ SettingsIdle /\ PairIdle /\ AdbIdle
IdleButRefresh == OthersIdle /\ ExtraIdleButRefresh

InitDetect == DetectInit /\ ScaleIdle /\ TextIdle /\ MacroIdle /\ ExtraIdle
SpecDetect == InitDetect /\ [][DetectNext]_vars

InitScale == ScaleInit /\ DetectIdle /\ TextIdle /\ MacroIdle /\ ExtraIdle
SpecScale == InitScale /\ [][ScaleNext]_vars

InitRetry == RetryInit /\ DetectIdle /\ ScaleIdle /\ MacroIdle /\ ExtraIdle
SpecRetry == InitRetry /\ [][TextNext]_vars

InitEscape == EscapeInit /\ DetectIdle /\ ScaleIdle /\ MacroIdle /\ ExtraIdle
EscapeNext == TextSendChar \/ TextEnd
SpecEscape == InitEscape /\ [][EscapeNext]_vars

\* execute_macro, with the text input its text actions run.
Init == MacroInit /\ TextIdle /\ DetectIdle /\ ScaleIdle /\ ExtraIdle
Next ==
    \/ MacroBegin \/ MacroStepNotDict \/ MacroStep \/ MacroTextCall
    \/ MacroTextReturn \/ MacroReturn \/ SettingsWritten
    \/ RetryAttempt \/ RetryExhausted \/ TextSendChar \/ TextEnd
Spec == Init /\ [][Next]_vars

\* The steps of execute_macro and of the text input it runs. Every call they
\* wait for returns: subprocess.run has a timeout of 30 s, time.sleep ends.
MacroProgress ==
    \/ MacroBegin \/ MacroStepNotDict \/ MacroStep \/ MacroTextCall
    \/ MacroTextReturn \/ MacroReturn
    \/ RetryAttempt \/ RetryExhausted \/ TextSendChar \/ TextEnd
\* execute_macro with its steps taken as long as one is possible.
SpecLive == Init /\ [][Next]_vars /\ WF_vars(MacroProgress)


InitMacros == MacrosInit /\ IdleButStore
MacrosNext == SaveMacro \/ GetMacro \/ DeleteMacro
SpecMacros == InitMacros /\ [][MacrosNext]_vars

\* A detection and then a macro run against stores that all hold rows: two
\* templates, a settings row, two macros and a link.
FrameInit ==
    /\ DetectInit /\ Len(dStore) = 2 /\ ~dArgThr.given
    /\ MacroInit /\ mSettingsDb.present /\ Len(mActions) = 1
    /\ kMacros \in LinkedMacroTables /\ Len(kMacros) = 2 /\ kMacroSeq = 2
    /\ kLinks = <<[id |-> 1, template_id |-> 1, macro_id |-> 2]>> /\ kLinkSeq = 1
    /\ kClock = 0 /\ kLast = [op |-> "none"]
InitFrame == FrameInit /\ ScaleIdle /\ TextIdle /\ ExtraIdleButStore
FrameDetect == DetectLoad \/ DetectMatch \/ DetectReturn
FrameMacro == dPc = "done" /\ MacroProgress
FrameNext == FrameDetect \/ FrameMacro
SpecFrame == InitFrame /\ [][FrameNext]_vars

InitSettings == SettingsInit /\ IdleButSettings
SpecSettings == InitSettings /\ [][GetDeviceSettings]_vars

InitPair == PairInit /\ IdleButPair
PairNext ==
    \/ \E r \in Invocations : PairBegin(r)
    \/ \E r \in Invocations : PairStep(r)
    \/ \E r \in Invocations : PairReturn(r)
SpecPair == InitPair /\ [][PairNext]_vars

InitAdb == AdbInit /\ IdleButAdb
AdbNext == DeleteRefused \/ DeleteSqlFile
SpecAdb == InitAdb /\ [][AdbNext]_vars

InitRefresh == RefreshIdle /\ IdleButRefresh
RefreshNext ==
    \/ StartAutoRefresh \/ StartWhileEnabled \/ StopAutoRefresh \/ StopWhileDisabled
    \/ \E l \in 1..Len(rLoops) : LoopTest(l)
    \/ \E l \in 1..Len(rLoops) : LoopPull(l)
    \/ \E l \in 1..Len(rLoops) : LoopWake(l)
SpecRefresh == InitRefresh /\ [][RefreshNext]_vars

InitLinks == LinksInit /\ IdleButStore
LinksNext == LinkTemplateToMacro \/ UnlinkTemplateFromMacro \/ GetMacrosForTemplate
SpecLinks == InitLinks /\ [][LinksNext]_vars

----------------------------------------------------------------------------
\* Properties of detect_current_screen (checked under SpecDetect).

\* The threshold a template is held against, from the arguments and the store.
ThresholdFor(id) == IF dArgThr.given THEN dArgThr.v ELSE dStore[id].threshold

HasWinner == dPc = "done" /\ "template_id" \in DOMAIN dResult
Candidates == {dMatches[k] : k \in 1..Len(dMatches)}
WinnerPriority == dStore[dResult.template_id].priority

\* C1: the winner is a candidate, no candidate has a higher priority than the
\* winner, and no candidate of the winner's priority has a higher confidence.
C1_WinnerIsLexMax ==
    HasWinner =>
        /\ \E c \in Candidates :
              /\ c.template_id = dResult.template_id
              /\ c.confidence = dResult.confidence
              /\ c.priority = WinnerPriority
        /\ \A c \in Candidates :
              /\ c.priority <= WinnerPriority
              /\ c.priority = WinnerPriority => c.confidence <= dResult.confidence

\* C1: the winner has a higher priority and a strictly lower confidence than
\* another candidate.
C1_Witness ==
    /\ HasWinner
    /\ \E c \in Candidates :
          /\ c.priority < WinnerPriority
          /\ c.confidence > dResult.confidence

\* C2: every entry of the match list carries its template's best confidence,
\* and that confidence is at least the threshold argument when one is given
\* (0 included) and the template's stored threshold otherwise; an evaluated
\* template whose best confidence is below that threshold is not in the list.
C2_CandidatesReachThreshold ==
    /\ \A k \in 1..Len(dMatches) :
          /\ dMatches[k].confidence >= ThresholdFor(dMatches[k].template_id)
          /\ \E j \in 1..Len(dSeen) :
                /\ dSeen[j].id = dMatches[k].template_id
                /\ dSeen[j].has
                /\ dSeen[j].best = dMatches[k].confidence
    /\ \A j \in 1..Len(dSeen) :
          (dSeen[j].has /\ dSeen[j].best < ThresholdFor(dSeen[j].id))
              => \A k \in 1..Len(dMatches) : dMatches[k].template_id # dSeen[j].id
    /\ HasWinner => \E k \in 1..Len(dMatches) :
                        dMatches[k].template_id = dResult.template_id

\* C2: detection is over, and a template that scored strictly highest of all
\* evaluated templates is below its threshold and absent from the list.
C2_Witness ==
    /\ dPc = "done"
    /\ Len(dSeen) >= 2
    /\ \E j \in 1..Len(dSeen) :
          /\ dSeen[j].has
          /\ dSeen[j].best < ThresholdFor(dSeen[j].id)
          /\ \A i \in 1..Len(dSeen) :
                i # j => (dSeen[i].has /\ dSeen[i].best < dSeen[j].best)
          /\ \A k \in 1..Len(dMatches) : dMatches[k].template_id # dSeen[j].id

\* C3: with templates loaded and none reaching its threshold, the result is
\* success = true with a null screen, and has no winner fields.
C3_NoMatchIsSuccess ==
    (/\ dPc = "done"
     /\ dTemplates # <<>>
     /\ \A j \in 1..Len(dSeen) :
           ~(dSeen[j].has /\ dSeen[j].best >= ThresholdFor(dSeen[j].id)))
    => /\ dResult.success = TRUE
       /\ dResult.screen = "null"
       /\ DOMAIN dResult \cap {"template_id", "confidence", "location", "scale",
                               "all_matches", "error"} = {}

\* C3: two templates were evaluated, each had a confidence, none reached its
\* threshold.
C3_Witness ==
    /\ dPc = "done"
    /\ Len(dTemplates) >= 2
    /\ Len(dSeen) = Len(dTemplates)
    /\ \A j \in 1..Len(dSeen) :
          dSeen[j].has /\ dSeen[j].best < ThresholdFor(dSeen[j].id)

\* C4: with no template loaded the result is success = false with the error
\* 'No templates available', and no match was evaluated.
C4_NoTemplatesOutcome ==
    (dPc = "done" /\ dTemplates = <<>>)
    => /\ dResult = [kind |-> "dict", success |-> FALSE,
                     error |-> "No templates available"]
       /\ dEvals = 0
       /\ dSeen = <<>>
       /\ dMatches = <<>>

\* C4: detection returned against an empty store.
C4_Witness == dPc = "done" /\ dStore = <<>> /\ dTemplates = <<>>

\* The matcher returned None for the j-th template without a confidence: an
\* image could not be loaded, or no correlation was computed.
Skipped(j) == ~dSeen[j].has
InSeq(seq) == {seq[k] : k \in 1..Len(seq)}
SkippedIds == {dSeen[j].id : j \in {i \in 1..Len(dSeen) : Skipped(i)}}
IsRemaining(template) == template.id \notin SkippedIds
IsOfRemaining(m) == m.template_id \notin SkippedIds
\* The templates of the list that were not skipped, and the outcome of
\* detection over them alone, with the confidences they had.
RemainingTemplates == SelectSeq(dTemplates, IsRemaining)
OutcomeOfRemaining ==
    IF RemainingTemplates = <<>>
    THEN [kind |-> "dict", success |-> FALSE, error |-> "No templates available"]
    ELSE IF SelectSeq(dMatches, IsOfRemaining) = <<>>
    THEN [kind |-> "dict", success |-> TRUE, screen |-> "null",
          message |-> "No matching screen detected"]
    ELSE WinnerOutcome(SortMatches(SelectSeq(dMatches, IsOfRemaining)))
\* Detection over a non-empty template list has returned; every template of
\* the list was evaluated, in list order, and no skipped one is a candidate.
AllEvaluated ==
    /\ dEvals = Len(dTemplates)
    /\ Len(dSeen) = Len(dTemplates)
    /\ \A j \in 1..Len(dSeen) :
          /\ dSeen[j].id = dTemplates[j].id
          /\ Skipped(j) => \A m \in InSeq(dMatches) : m.template_id # dSeen[j].id

\* C12 as stated: a skipped template does not abort detection, every template
\* is evaluated, and the outcome equals that of detection over the remaining
\* templates alone.
C12_OutcomeOfRemainingAlone ==
    (dPc = "done" /\ dTemplates # <<>>) =>
        /\ AllEvaluated
        /\ dResult = OutcomeOfRemaining

\* C12, amended: a skipped template does not abort detection, every template
\* is evaluated, and the outcome equals that of detection over the remaining
\* templates alone when at least one remains; when every template of the list
\* was skipped the outcome is the no-match outcome.
C12_SkippedIsNonMatch ==
    (dPc = "done" /\ dTemplates # <<>>) =>
        /\ AllEvaluated
        /\ RemainingTemplates # <<>> => dResult = OutcomeOfRemaining
        /\ RemainingTemplates = <<>> =>
              /\ dResult.success = TRUE
              /\ dResult.screen = "null"
              /\ "error" \notin DOMAIN dResult

\* C12: the first of two templates was skipped and the second one won.
C12_Witness ==
    /\ dPc = "done"
    /\ Len(dTemplates) = 2
    /\ Len(dSeen) = 2
    /\ Skipped(1)
    /\ ~Skipped(2)
    /\ HasWinner
    /\ dResult.template_id = dTemplates[2].id

\* The templates whose best confidence over the evaluated scales reached their
\* effective threshold.
ReachedThreshold ==
    {dSeen[j].id : j \in {i \in 1..Len(dSeen) :
                             dSeen[i].has /\ dSeen[i].best >= ThresholdFor(dSeen[i].id)}}

\* C17: a result with a winner carries all_matches; it holds exactly the
\* templates that reached their effective threshold, each once, in the order
\* (priority descending, confidence descending), and the winner's screen,
\* template_id, confidence, location and scale are those of its first element.
C17_AllMatchesRanked ==
    HasWinner =>
        /\ "all_matches" \in DOMAIN dResult
        /\ LET all_matches == dResult.all_matches IN
           /\ all_matches # <<>>
           /\ {all_matches[k].template_id : k \in 1..Len(all_matches)} = ReachedThreshold
           /\ \A i, k \in 1..Len(all_matches) :
                 i # k => all_matches[i].template_id # all_matches[k].template_id
           /\ \A i, k \in 1..Len(all_matches) :
                 i < k =>
                    \/ all_matches[i].priority > all_matches[k].priority
                    \/ /\ all_matches[i].priority = all_matches[k].priority
                       /\ all_matches[i].confidence >= all_matches[k].confidence
           /\ dResult.screen = all_matches[1].template_name
           /\ dResult.template_id = all_matches[1].template_id
           /\ dResult.confidence = all_matches[1].confidence
           /\ dResult.location = all_matches[1].location
           /\ dResult.scale = all_matches[1].scale

\* The position of a template in the loaded list.
ListPosition(id) == CHOOSE k \in 1..Len(dTemplates) : dTemplates[k].id = id
SameRank(a, b) == a.priority = b.priority /\ a.confidence = b.confidence

\* C18: the returned ranking is fixed by the loaded list and the confidences:
\* its entries carry their template's priority and best confidence, and of
\* any two entries the earlier one has the higher (priority, confidence), or
\* the same one and the earlier position in the loaded list; so candidates of
\* equal priority and confidence are ranked in list order and the first wins.
C18_RankingIsDetermined ==
    HasWinner =>
        LET all_matches == dResult.all_matches IN
        /\ \A k \in 1..Len(all_matches) :
              /\ all_matches[k].priority = dStore[all_matches[k].template_id].priority
              /\ all_matches[k].template_name = TemplateNames[all_matches[k].template_id]
              /\ \E j \in 1..Len(dSeen) :
                    /\ dSeen[j].id = all_matches[k].template_id
                    /\ dSeen[j].best = all_matches[k].confidence
        /\ \A i, k \in 1..Len(all_matches) :
              i < k =>
                 \/ all_matches[i].priority > all_matches[k].priority
                 \/ /\ all_matches[i].priority = all_matches[k].priority
                    /\ all_matches[i].confidence > all_matches[k].confidence
                 \/ /\ SameRank(all_matches[i], all_matches[k])
                    /\ ListPosition(all_matches[i].template_id)
                          < ListPosition(all_matches[k].template_id)
        /\ dResult.template_id = all_matches[1].template_id

\* C18: two candidates of equal priority and confidence; the winner is the one
\* that is first in the loaded list, where it is the one of the higher rowid.
C18_Witness ==
    /\ HasWinner
    /\ Len(dResult.all_matches) = 2
    /\ SameRank(dResult.all_matches[1], dResult.all_matches[2])
    /\ dTemplates[1].id = 2
    /\ dTemplates[2].id = 1
    /\ dResult.template_id = 2

----------------------------------------------------------------------------
\* Properties of match_template_multiscale (checked under SpecScale).

\* The scales whose resized template fits the screenshot.
FittingScales == {k \in ScaleIdx : ~TooLarge(sIn.dims, Scales[k])}
HighestConfidence ==
    CHOOSE c \in {sIn.confs[k] : k \in FittingScales} :
        \A k \in FittingScales : sIn.confs[k] <= c

\* C10: with both images loaded, the result is the non-match None when every
\* scale is skipped, and otherwise carries the highest confidence over the
\* fitting scales, a scale that achieves it with the location found at that
\* scale, and matched = (that confidence >= threshold).
C10_ReportsHighestScale ==
    (sMultiRes.kind = "returned" /\ sIn.shotOk /\ sIn.tplOk)
    => IF FittingScales = {} THEN sMultiRes.r = None
       ELSE /\ sMultiRes.r.found
            /\ sMultiRes.r.confidence = HighestConfidence
            /\ \E k \in FittingScales :
                  /\ sIn.confs[k] = HighestConfidence
                  /\ sMultiRes.r.scale = Scales[k]
                  /\ sMultiRes.r.location =
                        [width |-> Resized(sIn.dims, Scales[k]).w,
                         height |-> Resized(sIn.dims, Scales[k]).h]
            /\ sMultiRes.r.matched = (HighestConfidence >= sIn.threshold)

\* Both matchers have returned for the same screenshot, template and
\* threshold, and the single-scale one reported a confidence.
BothReported == /\ sSingleRes.kind = "returned"
                /\ sMultiRes.kind = "returned"
                /\ sSingleRes.r.found

\* C11: when single-scale matching reports a confidence, multi-scale matching
\* reports one that is not lower, and strictly higher when some other fitting
\* scale scores strictly higher than the native size; a template that matched
\* in single-scale mode matched in multi-scale mode.
C11_MultiNotBelowSingle ==
    BothReported =>
        /\ sMultiRes.r.found
        /\ sMultiRes.r.confidence >= sSingleRes.r.confidence
        /\ (\E k \in FittingScales : sIn.confs[k] > sIn.confs[NativeIdx])
              => sMultiRes.r.confidence > sSingleRes.r.confidence
        /\ sSingleRes.r.matched => sMultiRes.r.matched

----------------------------------------------------------------------------
\* Properties of execute_macro (checked under Spec).

MacroOver == mPc \in {"done", "raised"}
Succeeded(k) == mAttempted[k].outcome = "true"
FailedSteps == {k \in 1..Len(mAttempted) : ~Succeeded(k)}

\* C5: execute_action is called for the actions in list order, each once, and
\* when execute_macro is over it has been called for every action of the list.
C5_EveryActionAttempted ==
    /\ \A k \in 1..Len(mAttempted) : mAttempted[k].step = k
    /\ MacroOver => Len(mAttempted) = Len(mActions)

\* C6: the returned success is true exactly when every action of the list
\* succeeded, and it is false from the first step that did not succeed on.
C6_SuccessIffAllSucceeded ==
    /\ mPc = "done" =>
          (mResults.success <=>
              /\ Len(mAttempted) = Len(mActions)
              /\ \A k \in 1..Len(mActions) : Succeeded(k))
    /\ mPc \in {"loop", "in_text", "done"} =>
          (FailedSteps # {} => ~mResults.success)

\* C6: a run returned in which the first action did not succeed and a later
\* one did.
C6_Witness ==
    /\ mPc = "done"
    /\ Len(mActions) >= 2
    /\ ~Succeeded(1)
    /\ Succeeded(Len(mActions))
    /\ ~mResults.success

\* C7: in the returned results, executed_actions counts the steps that
\* succeeded, failed_actions lists the steps that did not, by 1-based index in
\* increasing order, execution_log has one entry per action in list order, and
\* executed_actions + |failed_actions| = total_actions = |execution_log| =
\* the length of the list.
C7_ResultCounts ==
    mPc = "done" =>
        /\ mResults.executed_actions =
              Cardinality({k \in 1..Len(mAttempted) : Succeeded(k)})
        /\ Len(mResults.failed_actions) = Cardinality(FailedSteps)
        /\ {mResults.failed_actions[j].step : j \in 1..Len(mResults.failed_actions)}
              = FailedSteps
        /\ \A i, j \in 1..Len(mResults.failed_actions) :
              i < j => mResults.failed_actions[i].step < mResults.failed_actions[j].step
        /\ Len(mResults.execution_log) = Len(mActions)
        /\ \A k \in 1..Len(mActions) :
              /\ mResults.execution_log[k].step = k
              /\ mResults.execution_log[k].action = Get(mActions[k], "type", "unknown")
        /\ mResults.total_actions = Len(mActions)
        /\ mResults.executed_actions + Len(mResults.failed_actions)
              = mResults.total_actions

\* C7: a run of three actions returned in which exactly the second failed.
C7_Witness ==
    /\ mPc = "done"
    /\ Len(mActions) = 3
    /\ FailedSteps = {2}
    /\ mResults.executed_actions = 2
    /\ Len(mResults.failed_actions) = 1
    /\ mResults.failed_actions[1].step = 2

----------------------------------------------------------------------------
\* Properties of execute_text_with_retry (checked under SpecRetry).

\* The execute_text calls made so far that have returned, and whether the
\* k-th of them returned True.
Attempts == Len(tDelivered)
AttemptSucceeded(k) == tText.iterable /\ tDelivered[k] = Len(tText.chars)

\* C8: never more than max_retries + 1 attempts; when the call has returned,
\* every attempt but the last failed, the call returns true exactly when the
\* last attempt succeeded, and a false return comes after exactly
\* max_retries + 1 attempts.
C8_AttemptCount ==
    /\ Attempts <= tMax + 1
    /\ tPc = "returned" =>
          /\ Attempts >= 1
          /\ \A k \in 1..(Attempts - 1) : ~AttemptSucceeded(k)
          /\ tResult <=> AttemptSucceeded(Attempts)
          /\ ~tResult => Attempts = tMax + 1

\* C8: with max_retries = 2 and every character send failing, the call has
\* returned false after three attempts.
C8_Witness ==
    /\ tPc = "returned"
    /\ ~tResult
    /\ tMax = 2
    /\ tText.iterable /\ Len(tText.chars) >= 1
    /\ Attempts = 3
    /\ \A k \in 1..Attempts : tDelivered[k] = 0
    /\ tCmds = 3

\* C19: the commands of the running attempt are those of the first characters
\* of the value, in order, one per character; only the last of them can have
\* failed, so no character is sent after a failed one; an attempt that has
\* sent nothing yet is at the first character; and a new attempt starts with
\* no command sent, at the first character.
C19_NoPartialResume ==
    /\ [](/\ Len(tTokens) <= Len(tText.chars)
          /\ \A k \in 1..Len(tTokens) :
                /\ tTokens[k].token = EscapedChar(tText.chars[k])
                /\ k < Len(tTokens) => tTokens[k].ok
          /\ tPc = "text_loop" =>
                /\ tPos = Len(tTokens) + 1
                /\ \A k \in 1..Len(tTokens) : tTokens[k].ok
          /\ \A k \in 1..Len(tDelivered) : tDelivered[k] <= Len(tText.chars))
    /\ [][(tPc = "retry_loop" /\ tPc' = "text_loop") =>
            (tPos' = 1 /\ tTokens' = <<>>)]_vars
    /\ [][(Len(tTokens') > Len(tTokens)) =>
            (/\ Len(tTokens') = Len(tTokens) + 1
             /\ tCmds' = tCmds + 1
             /\ \A k \in 1..Len(tTokens) : tTokens[k].ok)]_vars

\* C19: the first attempt sent the first character and failed at the second;
\* the second attempt sent both characters, the first one first.
C19_Witness ==
    /\ tPc = "returned"
    /\ tResult
    /\ tText.chars = <<"a", " ">>
    /\ tDelivered = <<1, 2>>
    /\ Len(tTokens) = 2
    /\ tTokens[1].token = <<"a">>
    /\ tTokens[2].token = <<"%", "s">>
    /\ tCmds = 4

----------------------------------------------------------------------------
\* Properties of execute_text (checked under SpecEscape).

\* The character an `input text` argument stands for: the escaping undone.
Unescape(token) ==
    IF token = <<"%", "s">> THEN " "
    ELSE IF Len(token) = 2 /\ token[1] = "\\" THEN token[2]
    ELSE token[1]

\* The token the table gives a character.
TableToken(char) ==
    IF char = " " THEN <<"%", "s">>
    ELSE IF char \in {"&", "\"", "'", Backtick, "$", "(", ")"} THEN <<"\\", char>>
    ELSE <<char>>

\* C9: the commands issued are one per character in input order, each with the
\* token the table gives its character; different characters of the text have
\* different tokens; undoing the escaping gives the characters back; when
\* execute_text returns true every character of the text was sent.
C9_EscapeRoundTrip ==
    /\ Len(tTokens) <= Len(tText.chars)
    /\ \A k \in 1..Len(tTokens) :
          /\ tTokens[k].token = TableToken(tText.chars[k])
          /\ Unescape(tTokens[k].token) = tText.chars[k]
          /\ \A j \in 1..Len(tTokens) :
                tTokens[j].token = tTokens[k].token => tText.chars[j] = tText.chars[k]
    /\ (tPc = "returned" /\ tResult) =>
          /\ Len(tTokens) = Len(tText.chars)
          /\ [k \in 1..Len(tTokens) |-> Unescape(tTokens[k].token)] = tText.chars
          /\ \A k \in 1..Len(tTokens) : tTokens[k].ok

\* C9: execute_text returned true for a text of an escaped character and an
\* ordinary one.
C9_Witness ==
    /\ tPc = "returned"
    /\ tResult
    /\ Len(tText.chars) = 2
    /\ tText.chars[1] \in SpecialChars
    /\ tText.chars[2] \notin SpecialChars
    /\ Len(tTokens[1].token) = 2
    /\ Len(tTokens[2].token) = 1

----------------------------------------------------------------------------
\* Further properties of execute_macro (checked under Spec).

KnownTypes == {"tap", "swipe", "text", "keyevent", "long_press", "back", "home", "wait"}
\* An action with no type, with an unknown type, with a missing payload field,
\* or an element that is no mapping.
Malformed(action) ==
    \/ ~IsDict(action)
    \/ "type" \notin DOMAIN action
    \/ action.type \notin KnownTypes
    \/ \E k \in 1..Len(PayloadKeys(action.type)) :
          PayloadKeys(action.type)[k] \notin DOMAIN action
LogStatus(k) == mResults.execution_log[k].status
FailedStepNumbers ==
    {mResults.failed_actions[j].step : j \in 1..Len(mResults.failed_actions)}

\* C13: execute_macro never leaves by an exception, and in the result it
\* returns every action of the list has its log entry, a malformed action
\* being recorded as a step that did not succeed.
C13_NeverRaises ==
    /\ mPc # "raised"
    /\ mPc = "done" =>
          /\ Len(mResults.execution_log) = Len(mActions)
          /\ \A k \in 1..Len(mActions) :
                Malformed(mActions[k]) =>
                    /\ LogStatus(k) \in {"failed", "error"}
                    /\ k \in FailedStepNumbers

\* C14: once a run has begun, get_device_settings has been called exactly
\* once, whatever the number of actions; the local settings never change
\* afterwards, also when the stored row does; and a text action that names no
\* delay_ms is typed with the keystroke delay read before the first action.
C14_SettingsReadOnce ==
    /\ [](mPc \in {"loop", "in_text", "done", "raised"} => mReads = 1)
    /\ [](mPc = "in_text" =>
            tDelay = Get(mActions[mI], "delay_ms", mSettings.keystroke_delay_ms))
    /\ [][(mPc \in {"loop", "in_text"}) => (mSettings' = mSettings)]_vars

\* C14: the third action, a text action that names no delay, is typed with the
\* delay of the row read at the start, after that row was removed from the
\* store (a new read would give the default delay).
C14_Witness ==
    /\ mPc = "in_text"
    /\ mI = 3
    /\ "delay_ms" \notin DOMAIN mActions[mI]
    /\ mSettings.keystroke_delay_ms = 50
    /\ tDelay = 50
    /\ mSettingsDb = [present |-> FALSE]
    /\ mReads = 1

\* The run has its `results` dict.
HasResults == mPc \in {"loop", "in_text", "done", "raised"}
\* The key whose subscript raises KeyError in the k-th action.
RaisedKey(k) ==
    MissingKey(mActions[k], PayloadKeys(Get(mActions[k], "type", "None")))

\* C15: execution_log has one entry per execute_action call, in call order;
\* the entry's status is 'error', with the text of the error, exactly when the
\* call raised, 'failed' exactly when it returned false and 'success' exactly
\* when it returned true; and a step logged as 'error' or 'failed' leaves the
\* run in its loop, at the next action.
C15_StatusPerOutcome ==
    /\ [](HasResults =>
            /\ Len(mResults.execution_log) = Len(mAttempted)
            /\ \A k \in 1..Len(mAttempted) :
                  /\ mResults.execution_log[k].step = mAttempted[k].step
                  /\ LogStatus(k) \in {"error", "failed", "success"}
                  /\ LogStatus(k) = "error" <=> mAttempted[k].outcome = "raise"
                  /\ LogStatus(k) = "failed" <=> mAttempted[k].outcome = "false"
                  /\ LogStatus(k) = "success" <=> mAttempted[k].outcome = "true"
                  /\ LogStatus(k) = "error" <=>
                        "error" \in DOMAIN mResults.execution_log[k]
                  /\ LogStatus(k) = "error" =>
                        mResults.execution_log[k].error = RaisedKey(k))
    /\ [][(/\ HasResults
            /\ Len(mResults'.execution_log) = Len(mResults.execution_log) + 1
            /\ mResults'.execution_log[Len(mResults'.execution_log)].status
                  \in {"error", "failed"})
           => (mPc' = "loop" /\ mI' = mI + 1)]_vars

\* C15: a run of three actions returned whose first step is logged 'error',
\* whose second is logged 'failed' and whose third is logged 'success'.
C15_Witness ==
    /\ mPc = "done"
    /\ Len(mActions) = 3
    /\ LogStatus(1) = "error"
    /\ LogStatus(2) = "failed"
    /\ LogStatus(3) = "success"
    /\ mAttempted[1].outcome = "raise"
    /\ mAttempted[2].outcome = "false"

\* subprocess.run timed out, or raised another exception.
ChannelFailures == {"timeout", "oserror"}
\* The text call of the running text action has returned false.
TextGaveUp == mPc = "in_text" /\ tPc = "returned" /\ ~tResult
LastLogged == mResults'.execution_log[Len(mResults'.execution_log)]

\* C16: a step whose device command timed out or raised is an execute_action
\* call that returned false, logged 'failed' and listed in failed_actions; a
\* text input with retry returns false only after max_retries + 1 failed
\* attempts; the step after either is recorded 'failed' with the run in its
\* loop at the next action; a returned run has attempted every action; and
\* the run leaves by an exception only at an element that is no dict.
C16_FailuresAreOrdinary ==
    /\ []((HasResults /\ mLastCmd.outcome \in ChannelFailures) =>
            /\ mLastCmd.step <= Len(mAttempted)
            /\ mAttempted[mLastCmd.step].outcome = "false"
            /\ LogStatus(mLastCmd.step) = "failed"
            /\ mLastCmd.step \in FailedStepNumbers)
    /\ []((TextGaveUp /\ tRetry) =>
            /\ Attempts = tMax + 1
            /\ \A k \in 1..Attempts : ~AttemptSucceeded(k))
    /\ []((mPc = "done") => (Len(mAttempted) = Len(mActions)))
    /\ []((mPc = "raised") => ~IsDict(mActions[mI]))
    /\ [][(TextGaveUp /\ mI' # mI) =>
            (/\ mPc' = "loop"
             /\ mI' = mI + 1
             /\ LastLogged.step = mI
             /\ LastLogged.status = "failed")]_vars
    /\ [][(mLastCmd' # mLastCmd /\ mLastCmd'.outcome \in ChannelFailures) =>
            (/\ mPc' = "loop"
             /\ mI' = mI + 1
             /\ LastLogged.step = mI
             /\ LastLogged.status = "failed")]_vars

\* C16: a run of three actions returned: the first, a text input with retry,
\* gave up; the command of the second timed out; the third succeeded.
C16_Witness ==
    /\ mPc = "done"
    /\ Len(mActions) = 3
    /\ Get(mActions[1], "type", "unknown") = "text"
    /\ "retry" \notin DOMAIN mActions[1]
    /\ mAttempted[1].outcome = "false"
    /\ mLastCmd = [step |-> 2, outcome |-> "timeout"]
    /\ LogStatus(2) = "failed"
    /\ mAttempted[3].outcome = "true"
    /\ mCmds = 4

\* The device commands the claim allows an action: 1 for a tap, swipe,
\* keyevent, long_press, back or home, 0 for a wait, and (max_retries + 1)
\* times the length of the value for a text input.
CommandAllowance(action) ==
    IF ~IsDict(action) THEN 0
    ELSE IF Get(action, "type", "None")
               \in {"tap", "swipe", "keyevent", "long_press", "back", "home"}
    THEN 1
    ELSE IF Get(action, "type", "None") = "text" /\ "value" \in DOMAIN action
    THEN (DefaultMaxRetries + 1) * Len(action.value.chars)
    ELSE 0
RECURSIVE AllowanceUpTo(_)
AllowanceUpTo(n) ==
    IF n = 0 THEN 0 ELSE AllowanceUpTo(n - 1) + CommandAllowance(mActions[n])
\* The commands issued so far, those of the running text input included, and
\* the number of actions begun.
CommandsIssued == mCmds + (IF mPc = "in_text" THEN tCmds ELSE 0)
ActionsBegun ==
    IF mPc = "in_text" THEN mI
    ELSE IF mI - 1 <= Len(mActions) THEN mI - 1 ELSE Len(mActions)

\* The commands issued never exceed the allowance of the actions begun.
CommandsWithinAllowance == CommandsIssued <= AllowanceUpTo(ActionsBegun)

\* C20: every run of execute_macro comes to return its result, after the last
\* action, and at no time has it issued more device commands than the sum of
\* the allowances of its actions.
C20_RunsToCompletion ==
    /\ <>(mPc = "done" /\ mI = Len(mActions) + 1)
    /\ [](CommandsIssued <= AllowanceUpTo(Len(mActions)))

----------------------------------------------------------------------------
\* The link relation.

\* No two rows of template_macro_links hold the same (template_id, macro_id).
OneRowPerPair ==
    \A i, j \in 1..Len(kLinks) :
        (kLinks[i].template_id = kLinks[j].template_id
         /\ kLinks[i].macro_id = kLinks[j].macro_id) => i = j

\* The list get_macros_for_template returned names no macro twice.
ListedOnce ==
    kLast.op = "get_macros_for_template" =>
        \A i, j \in 1..Len(kLast.ret) : kLast.ret[i].id = kLast.ret[j].id => i = j

\* C21: after any sequence of link_template_to_macro and
\* unlink_template_from_macro calls the link table holds at most one row per
\* (template_id, macro_id) pair, and get_macros_for_template never lists the
\* same macro twice for a template.
C21_OneLinkPerPair == OneRowPerPair /\ ListedOnce

----------------------------------------------------------------------------
\* Saved macros.

\* The macro of a row, as the specification describes the entity: without the
\* time of the last save.
MacroOf(row) ==
    [id |-> row.id, name |-> row.name, description |-> row.description,
     actions |-> row.actions]
StoredMacros(table) == {MacroOf(table[k]) : k \in 1..Len(table)}

OneMacroPerName ==
    \A i, j \in 1..Len(kMacros) : kMacros[i].name = kMacros[j].name => i = j

\* get_macro(name) straight after a save_macro(name, d, a) that returned True,
\* on a store that can be read, returns d and a, the actions in the same order.
GetReturnsSaved ==
    (/\ kLast.op = "get_macro" /\ kLast.readable
     /\ kLast.follows.op = "save_macro"
     /\ kLast.follows.ret /\ kLast.follows.name = kLast.name)
    => /\ kLast.ret.found
       /\ kLast.ret.description = kLast.follows.description
       /\ kLast.ret.actions = kLast.follows.actions

\* A save of a name that exists keeps the id of its row and replaces the
\* description and the actions.
SaveKeepsId ==
    (kLast'.op = "save_macro" /\ kLast'.ret /\ kLast'.existed)
    => LET k == RowOfName(kMacros, kLast'.name)
           k2 == RowOfName(kMacros', kLast'.name)
       IN /\ k2 # 0
          /\ kMacros'[k2].id = kMacros[k].id
          /\ kMacros'[k2].description = kLast'.description
          /\ json_loads(kMacros'[k2].actions) = kLast'.actions
          /\ Len(kMacros') = Len(kMacros)

\* The second of two equal saves changes no stored macro.
SaveTwiceIsOnce ==
    (/\ kLast.op = "save_macro" /\ kLast.ret
     /\ kLast'.op = "save_macro" /\ kLast'.ret
     /\ kLast'.name = kLast.name /\ kLast'.description = kLast.description
     /\ kLast'.actions = kLast.actions)
    => StoredMacros(kMacros') = StoredMacros(kMacros)

----------------------------------------------------------------------------
\* What detection and macro runs leave alone.

StoredEntities == <<dStore, mSettingsDb, kMacros, kLinks>>

\* C23: detect_current_screen and execute_macro only read the stores: no step
\* of either, on success or on failure, changes the stored templates, macros,
\* template-macro links or device settings.
C23_StoresOnlyRead == [][UNCHANGED StoredEntities]_vars

\* A macro run that failed has ended after a detection that found a screen,
\* with rows in every store.
C23_Witness ==
    /\ dPc = "done" /\ HasWinner
    /\ mPc = "done" /\ ~mResults.success
    /\ Len(dStore) = 2 /\ mSettingsDb.present /\ Len(kMacros) = 2 /\ Len(kLinks) = 1

----------------------------------------------------------------------------
\* Device settings.

SettingsKeys == {"match_threshold", "keystroke_delay_ms", "post_login_wait_seconds"}
SettingsDefaults ==
    [match_threshold |-> Column(70), keystroke_delay_ms |-> Column(150),
     post_login_wait_seconds |-> Column(4)]
AskedRow == gTable[gDevice]

\* C24: get_device_settings returns a record of exactly the three settings,
\* never an exception: the stored values of the row of the device's address
\* when there is one and the store can be read, the defaults (0.7, 150, 4)
\* when there is no row or the store cannot be read.
C24_StoredOrDefaults ==
    gPc = "done" =>
        /\ DOMAIN gRet.value = SettingsKeys
        /\ (gRet.readable /\ AskedRow.present)
              => \A key \in SettingsKeys : gRet.value[key] = AskedRow[key]
        /\ (~gRet.readable \/ ~AskedRow.present)
              => gRet.value = SettingsDefaults

\* The store could not be read while the device had a row of other values
\* than the defaults: the defaults came back.
C24_Witness ==
    /\ gPc = "done" /\ ~gRet.readable /\ AskedRow.present
    /\ AskedRow.match_threshold = Column(80)
    /\ gRet.value = SettingsDefaults

----------------------------------------------------------------------------
\* Two macro runs at once.

\* execute_macro run alone over `actions`, the device answering step k with
\* answers[k]: how it ends and the results it has built.
RECURSIVE SoloFrom(_, _, _, _)
SoloFrom(actions, answers, i, results) ==
    IF i > Len(actions) THEN [pc |-> "done", results |-> results]
    ELSE IF ~IsDict(actions[i]) THEN [pc |-> "raised", results |-> results]
    ELSE LET call == execute_action(actions[i], get_device_settings([present |-> FALSE], TRUE))
             outcome ==
                 IF call.kind = "raise" THEN "raise"
                 ELSE IF call.kind \in {"cmd", "text"}
                 THEN (IF answers[i] = "ok" THEN "true" ELSE "false")
                 ELSE (IF call.result THEN "true" ELSE "false")
         IN SoloFrom(actions, answers, i + 1,
                     Recorded(results, i, Get(actions[i], "type", "unknown"), outcome,
                              IF call.kind = "raise" THEN call.error ELSE ""))
SoloRun(actions, answers) ==
    SoloFrom(actions, answers, 1,
             [success |-> TRUE, total_actions |-> Len(actions), executed_actions |-> 0,
              failed_actions |-> <<>>, execution_log |-> <<>>])

PairEnded(r) == pPc[r] \in {"done", "raised"}

\* C25: two execute_macro runs at once for different devices do not interfere:
\* every command a run issues is addressed to the device of that run, and
\* under every interleaving a run ends as it would end alone with the same
\* answers of the device to its actions, with the same results.
C25_RunsDoNotInterfere ==
    /\ \A c \in pWire : c.device = PairDevice[c.by]
    /\ \A r \in Invocations :
          PairEnded(r) =>
              LET solo == SoloRun(pMacros[r].actions, pAnswers[r]) IN
              /\ pPc[r] = solo.pc
              /\ pFrames[r].results = solo.results

\* Both runs have ended after commands of both: the first with a failed first
\* step, the second, whose first step succeeded, at the element that is no dict.
C25_Witness ==
    /\ pPc[1] = "done" /\ pPc[2] = "raised"
    /\ \E c \in pWire : c.by = 1
    /\ \E c \in pWire : c.by = 2
    /\ ~pFrames[1].results.success /\ pFrames[1].results.failed_actions[1].step = 1
    /\ pFrames[2].results.success /\ pFrames[2].results.executed_actions = 1

----------------------------------------------------------------------------
\* The 'No templates available' outcome.

\* C26: detect_current_screen returns the 'No templates available' outcome if
\* and only if the template store holds no template; with a store that is not
\* empty, whatever the state of the reference images, templates are skipped
\* as non-matches and the outcome is a match or the no-match outcome.
C26_NoTemplatesIffEmptyStore ==
    dPc = "done" => (dResult = NoTemplatesOutcome <=> dStore = <<>>)

----------------------------------------------------------------------------
\* What execute_action gives back.

\* C27: execute_action returns a boolean for every action and never raises:
\* every attempted step ended in true or false; a step whose action has an
\* unknown type or none ended in false with no device command; so a known
\* type with a missing payload field ended in false as well.
C27_ActionReturnsBoolean ==
    \A k \in 1..Len(mAttempted) :
        LET step == mAttempted[k].step
            action_type == Get(mActions[step], "type", "None")
        IN /\ mAttempted[k].outcome \in {"true", "false"}
           /\ action_type \notin KnownTypes
                 => (mAttempted[k].outcome = "false" /\ mLastCmd.step # step)

----------------------------------------------------------------------------
\* Deleting the app's database.

RmIssued == \E k \in 1..Len(aCmds) : aCmds[k].cmd = "rm"
RunningCheck == aCmds[1].outcome

\* C28: delete_sql_file issues the rm only when the device is connected, the
\* app installed and the app not running; with the app running on a connected
\* device that has it installed the reply is {success: false, reason:
\* 'app_running'}, also when the command of the running check timed out or
\* failed.
C28_RmOnlyWhenAppStopped ==
    aPc = "done" =>
        /\ RmIssued => (aDevice.connected /\ aDevice.app_installed /\ ~aRunning)
        /\ (aDevice.connected /\ aDevice.app_installed /\ aRunning)
              => aRet = Reply(FALSE, "app_running")
        /\ (aDevice.connected /\ aDevice.app_installed /\ ~RunningCheck.done)
              => aRet = Reply(FALSE, "app_running")

----------------------------------------------------------------------------
\* What a text input with retries delivers.

RECURSIVE SumOf(_)
SumOf(seq) == IF seq = <<>> THEN 0 ELSE Head(seq) + SumOf(Tail(seq))
\* The attempts that have ended without delivering the whole value.
FailedAttempts == {k \in 1..Attempts : ~AttemptSucceeded(k)}

----------------------------------------------------------------------------
\* The auto-refresh thread.

\* C30: after any sequence of start_auto_refresh and stop_auto_refresh calls,
\* in any interleaving with the background loop, at most one auto_refresh_task
\* loop is alive; and while auto_refresh_enabled is false, a loop that is
\* alive is one that has not tested the flag since it was cleared, so that
\* none remains once each has slept its interval out.
C30_AtMostOneLoop ==
    /\ Cardinality(Alive) <= 1
    /\ ~rEnabled => Alive \subseteq rUntested

====
